---- MODULE Spec2Model ----
(***************************************************************************)
(* Tabulate (browser extension): the tab-clustering pipeline.              *)
(*                                                                         *)
(*  - background/tabManager.ts : tab enumeration, protected-URL filter,    *)
(*    page-metadata extractor, batched enrichment pipeline                 *)
(*  - background/llmService.ts : clustering request, response validator /  *)
(*    reconciler, error classifier (modelled from the design document,     *)
(*    sections 4.3 to 4.5 and 7)                                           *)
(*  - background/index.ts : the service worker's message handlers          *)
(*  - popup/App.tsx : the popup's analysis state and its handlers          *)
(*                                                                         *)
(* An action is one job of the JavaScript event loop: the code that runs   *)
(* from one suspension point (await) to the next.                          *)
(***************************************************************************)
EXTENDS Integers, Sequences, FiniteSets, TLC

VARIABLES
    platformTabs,   \* what chrome.tabs.query({}) reports, in enumeration order
    pc,             \* position of getAllTabsWithMetadata
    rawTabs,        \* const rawTabs (tabManager.ts:187)
    i,              \* loop index of the batch loop (tabManager.ts:194)
    results,        \* const results: TabData[] (tabManager.ts:192)
    batchResults,   \* the promises of Promise.all(batch.map(buildTabData))
    injection,      \* per tab id: state of the executeScript promise
    timer,          \* per tab id: state of the setTimeout of extractTabMetadata
    page,           \* extractor: the document the injected function runs in
    pageMeta,       \* extractor: what extractPageMetadata returned
    pageRecord,     \* extractor: the TabData built from pageMeta
    inputIds,       \* validator: the authoritative input id list
    rawResponse,    \* validator: the raw LLM response
    outcome,        \* validator: ClusteringResult or failure
    apiKey,         \* credential store: the stored API key, if any
    swPc,           \* position of analyzeTabs in the service worker
    enriched,       \* const tabs of analyzeTabs (index.ts:316), once it is set
    requests,       \* requests issued to the LLM provider by the current run
    clusterOutcome, \* what clusterTabs returned or threw in the current run
    response,       \* the ANALYZE_TABS response on its way to the popup
    analysis,       \* popup: const [analysis, setAnalysis] (App.tsx:64)
    hasKey,         \* popup: const [hasKey, setHasKey] (App.tsx:71)
    colorIndex,     \* let colorIndex (index.ts:175)
    runs,           \* ANALYZE_TABS requests the popup has sent
    stored,         \* chrome.storage.local: savedWorkspaces
    savedWorkspaces, \* popup: const [savedWorkspaces, setSavedWorkspaces] (App.tsx:69)
    calls,          \* the messages about saved workspaces and their handlers
    browser,        \* the windows, tabs and tab groups the service worker created
    jobs,           \* session: the ANALYZE_TABS messages and their analyzeTabs runs
    checks,         \* session: the HAS_API_KEY messages of checkApiKey
    applied         \* session: the requests whose response the popup applied, in order

pipelineVars == <<platformTabs, pc, rawTabs, i, results, batchResults, injection, timer>>
extractorVars == <<page, pageMeta, pageRecord>>
validatorVars == <<inputIds, rawResponse, outcome>>
analyzeVars ==
    <<apiKey, swPc, enriched, requests, clusterOutcome, response, analysis, hasKey,
      colorIndex, runs>>
storeVars == <<stored, savedWorkspaces, calls, browser>>
sessionVars == <<jobs, checks, applied>>
vars == <<pipelineVars, extractorVars, validatorVars, analyzeVars, storeVars, sessionVars>>

(***************************************************************************)
(* Bounds of the model.                                                    *)
(***************************************************************************)
\* number of tab handles the platform enumerates
MaxTabs == 3
\* tabs per batch; the source sets 10 (tabManager.ts:191), the model runs the
\* same loop with a smaller batch so that several batches fit in MaxTabs
BATCH_SIZE == 2
\* longest body text of a page, in characters
MaxBodyLen == 3
\* tab ids the clustering works with: 1 .. MaxId
MaxId == 3
\* most workspaces in an LLM response
MaxWorkspaces == 2
\* most ids an LLM response lists, over all its lists
MaxPlacements == 3
\* most ANALYZE_TABS requests the popup sends
MaxRuns == 2
\* most SAVE_WORKSPACE and DELETE_WORKSPACE messages the popup sends
MaxUserCalls == 2

\* An optional value: None is JavaScript's undefined / null, Some(v) a value
None == << >>
Some(v) == << v >>
Min(a, b) == IF a < b THEN a ELSE b

(***************************************************************************)
(* URLs.  A URL is the text scheme ":" ["//"] rest; the model keeps the    *)
(* parts the code looks at.  scheme = "" is a text that is no URL.         *)
(***************************************************************************)
Url(scheme, slashes, host) == [scheme |-> scheme, slashes |-> slashes, host |-> host]

\* a regular expression /^scheme:/ or /^scheme:\/\//
Pattern(scheme, slashes) == [scheme |-> scheme, slashes |-> slashes]

PROTECTED_URL_PATTERNS ==
    << Pattern("chrome", TRUE),
       Pattern("chrome-extension", TRUE),
       Pattern("about", FALSE),
       Pattern("edge", TRUE),
       Pattern("brave", TRUE),
       Pattern("moz-extension", TRUE),
       Pattern("file", TRUE),
       Pattern("view-source", FALSE),
       Pattern("devtools", TRUE) >>

\* every pattern written with "//", as /^about:\/\// and /^view-source:\/\//
PatternTest_AlwaysSlashes(pattern, url) ==
    /\ url.scheme = pattern.scheme
    /\ url.slashes

\* pattern.test(url)
PatternTest(pattern, url) ==
    /\ url.scheme = pattern.scheme
    /\ pattern.slashes => url.slashes

isProtectedUrl(url) ==
    \E k \in DOMAIN PROTECTED_URL_PATTERNS : PatternTest(PROTECTED_URL_PATTERNS[k], url)

\* new URL(url).hostname, 'unknown' when the constructor throws
extractDomain(url) ==
    IF url.scheme = "" THEN "unknown" ELSE url.host

(***************************************************************************)
(* The page a script is injected into, as extractPageMetadata reads it.    *)
(* An attribute is NoAttr when querySelector finds no element or the       *)
(* element has no content attribute; a text is a sequence of characters.   *)
(***************************************************************************)
NoAttr == "<none>"
\* JavaScript truthiness of (string | null | undefined)
Truthy(v) == v \notin {NoAttr, ""}
\* v || undefined
OrUndefined(v) == IF Truthy(v) THEN Some(v) ELSE None

Whitespace == {" ", "\n"}
Chars == {"a"} \cup Whitespace

RECURSIVE SkipWhitespace(_)
SkipWhitespace(s) ==
    IF s = << >> THEN s
    ELSE IF Head(s) \in Whitespace THEN SkipWhitespace(Tail(s)) ELSE s

\* text.replace(/\s+/g, ' ')
RECURSIVE CollapseWhitespace(_)
CollapseWhitespace(s) ==
    IF s = << >> THEN s
    ELSE IF Head(s) \in Whitespace
         THEN << " " >> \o CollapseWhitespace(SkipWhitespace(s))
         ELSE << Head(s) >> \o CollapseWhitespace(Tail(s))

RECURSIVE TrimEnd(_)
TrimEnd(s) ==
    IF s = << >> THEN s
    ELSE IF s[Len(s)] \in Whitespace THEN TrimEnd(SubSeq(s, 1, Len(s) - 1)) ELSE s

\* text.trim()
Trim(s) == TrimEnd(SkipWhitespace(s))

\* the 500 of text.slice(0, 500)
SNIPPET_LENGTH == 500
Slice(s, n) == SubSeq(s, 1, Min(Len(s), n))

\* document.body is null, body.innerText throws, or body.innerText is a text
Body(kind, text) == [kind |-> kind, text |-> text]

\* the snippet is suppressed by the meta description only
extractPageMetadata_MetaOnly(doc) ==
    LET description == OrUndefined(doc.metaDescription)
        ogTags ==
            IF Truthy(doc.ogTitle) \/ Truthy(doc.ogDescription) \/ Truthy(doc.ogType) \/ Truthy(doc.ogImage)
            THEN Some([title |-> OrUndefined(doc.ogTitle),
                       description |-> OrUndefined(doc.ogDescription),
                       type |-> OrUndefined(doc.ogType),
                       image |-> OrUndefined(doc.ogImage)])
            ELSE None
        text == Trim(CollapseWhitespace(doc.body.text))
        contentSnippet ==
            IF description = None /\ doc.body.kind = "text" /\ Slice(text, SNIPPET_LENGTH) # << >>
            THEN Some(Slice(text, SNIPPET_LENGTH))
            ELSE None
    IN  [description |-> description, ogTags |-> ogTags, contentSnippet |-> contentSnippet]

extractPageMetadata(doc) ==
    LET description == OrUndefined(doc.metaDescription)
        ogTitle == doc.ogTitle
        ogDescription == doc.ogDescription
        ogType == doc.ogType
        ogImage == doc.ogImage
        ogTags ==
            IF Truthy(ogTitle) \/ Truthy(ogDescription) \/ Truthy(ogType) \/ Truthy(ogImage)
            THEN Some([title |-> OrUndefined(ogTitle),
                       description |-> OrUndefined(ogDescription),
                       type |-> OrUndefined(ogType),
                       image |-> OrUndefined(ogImage)])
            ELSE None
        text == Trim(CollapseWhitespace(doc.body.text))
        contentSnippet ==
            IF description = None /\ ~Truthy(ogDescription)
            THEN IF doc.body.kind = "text"
                 THEN IF Slice(text, SNIPPET_LENGTH) = << >>
                      THEN None
                      ELSE Some(Slice(text, SNIPPET_LENGTH))
                 ELSE None
            ELSE None
    IN  [description |-> description, ogTags |-> ogTags, contentSnippet |-> contentSnippet]

(***************************************************************************)
(* Tab handles of the platform (chrome.tabs.Tab).  id 0 stands for a       *)
(* missing id, "" for a missing status / title / favIconUrl, 0 for a       *)
(* missing lastAccessed: the code only tests these for falsiness.          *)
(***************************************************************************)
TabIds == 1 .. MaxTabs

Handle(id, url, status, title, favIconUrl, lastAccessed) ==
    [id |-> id, url |-> url, status |-> status, title |-> title,
     favIconUrl |-> favIconUrl, lastAccessed |-> lastAccessed]

WebUrl == Url("https", TRUE, "a.com")
NotAUrl == Url("", FALSE, "")

\* one URL of every protected kind the design names
ProtectedSamples ==
    { Url("chrome", TRUE, "settings"),
      Url("edge", TRUE, "settings"),
      Url("brave", TRUE, "settings"),
      Url("chrome-extension", TRUE, "abcdef"),
      Url("moz-extension", TRUE, "abcdef"),
      Url("about", FALSE, ""),
      Url("file", TRUE, ""),
      Url("view-source", FALSE, ""),
      Url("devtools", TRUE, "devtools") }

\* the statuses the platform reports for a tab that has finished loading
ReadyStatuses == {"complete", ""}

HandleKinds == {"ready", "loading", "unloaded", "protected", "nourl", "noid"}

\* the tab at position k of the enumeration has id k, or no id
HandleOf(k, kind, protectedUrl, readyStatus) ==
    CASE kind = "ready" -> Handle(k, Some(WebUrl), readyStatus, "A", "icon", 7)
      [] kind = "loading" -> Handle(k, Some(NotAUrl), "loading", "", "", 0)
      [] kind = "unloaded" -> Handle(k, Some(WebUrl), "unloaded", "U", "icon", 7)
      [] kind = "protected" -> Handle(k, Some(protectedUrl), "complete", "P", "", 0)
      [] kind = "nourl" -> Handle(k, None, "complete", "C", "", 0)
      [] kind = "noid" -> Handle(0, Some(WebUrl), "complete", "D", "", 0)

EnumerationsOver(protectedUrls, readyStatuses) ==
    { [k \in 1 .. MaxTabs |-> HandleOf(k, kinds[k], u, st)] :
        kinds \in [1 .. MaxTabs -> HandleKinds], u \in protectedUrls, st \in readyStatuses }

Enumerations == EnumerationsOver(ProtectedSamples, ReadyStatuses)

\* the filter of queryAllTabs
Accessible(tab) ==
    /\ tab.id # 0
    /\ tab.url # None
    /\ ~isProtectedUrl(tab.url[1])

\* the map of queryAllTabs: a RawTab
RawTab(tab) ==
    [id |-> tab.id,
     url |-> tab.url[1],
     title |-> IF tab.title = "" THEN "Untitled" ELSE tab.title,
     favIconUrl |-> tab.favIconUrl,
     status |-> IF tab.status = "" THEN "complete" ELSE tab.status,
     lastAccessed |-> tab.lastAccessed]

queryAllTabs(tabs) ==
    LET kept == SelectSeq(tabs, Accessible)
    IN  [k \in 1 .. Len(kept) |-> RawTab(kept[k])]

(***************************************************************************)
(* What an injection can fulfil with: the InjectionResult[] of             *)
(* chrome.scripting.executeScript, whose result is what                    *)
(* extractPageMetadata returned in the page (or nothing).                  *)
(***************************************************************************)
Doc(metaDescription, ogTitle, ogDescription, ogType, ogImage, body) ==
    [metaDescription |-> metaDescription, ogTitle |-> ogTitle,
     ogDescription |-> ogDescription, ogType |-> ogType, ogImage |-> ogImage,
     body |-> body]

SamplePages ==
    { Doc("d", "x", NoAttr, NoAttr, NoAttr, Body("text", << "a", "a" >>)),
      Doc(NoAttr, NoAttr, "", NoAttr, NoAttr, Body("text", << " ", "a", "\n" >>)) }

Frames ==
    { << [result |-> None] >> }
    \cup { << [result |-> Some(extractPageMetadata(d))] >> : d \in SamplePages }

NotStarted == [state |-> "none", value |-> << >>]
Running == [state |-> "running", value |-> << >>]
Rejected == [state |-> "rejected", value |-> << >>]
Fulfilled(frames) == [state |-> "fulfilled", value |-> frames]

\* extractTabMetadata after the race was won by the injection
MetadataOf(frames) ==
    IF frames # << >> /\ frames[1].result # None THEN frames[1].result ELSE None

\* the TabData buildTabData returns; metadata is None for null
buildTabData(rawTab, metadata) ==
    [id |-> rawTab.id,
     url |-> rawTab.url,
     title |-> rawTab.title,
     domain |-> extractDomain(rawTab.url),
     favicon |-> rawTab.favIconUrl,
     description |-> IF metadata = None THEN None ELSE metadata[1].description,
     ogTags |-> IF metadata = None THEN None ELSE metadata[1].ogTags,
     contentSnippet |-> IF metadata = None THEN None ELSE metadata[1].contentSnippet,
     lastAccessed |-> IF rawTab.lastAccessed = 0 THEN "now" ELSE "recorded"]

\* rawTabs.slice(idx, idx + BATCH_SIZE)
BatchOf(raw, idx) == SubSeq(raw, idx + 1, Min(idx + BATCH_SIZE, Len(raw)))

\* every tab of the batch is extracted, whatever its status
LoopHead_NoGate(raw, idx, res) ==
    LET batch == BatchOf(raw, idx)
        extracted == { batch[k].id : k \in 1 .. Len(batch) }
    IN  /\ results' = res
        /\ i' = idx
        /\ IF idx < Len(raw)
           THEN /\ pc' = "batch"
                /\ batchResults' = [k \in 1 .. Len(batch) |-> None]
                /\ injection' = [t \in TabIds |-> IF t \in extracted THEN Running ELSE injection[t]]
                /\ timer' = [t \in TabIds |-> IF t \in extracted THEN "armed" ELSE timer[t]]
           ELSE /\ pc' = "done"
                /\ batchResults' = << >>
                /\ UNCHANGED <<injection, timer>>

\* the head of the for loop with index idx and the output list res: either
\* batch.map(buildTabData) starts the next batch, or the function returns
LoopHead(raw, idx, res) ==
    LET batch == BatchOf(raw, idx)
        extracted == { batch[k].id : k \in { j \in 1 .. Len(batch) : batch[j].status = "complete" } }
    IN  /\ results' = res
        /\ i' = idx
        /\ IF idx < Len(raw)
           THEN /\ pc' = "batch"
                /\ batchResults' =
                       [k \in 1 .. Len(batch) |->
                           IF batch[k].status = "complete"
                           THEN None
                           ELSE Some(buildTabData(batch[k], None))]
                /\ injection' = [t \in TabIds |-> IF t \in extracted THEN Running ELSE injection[t]]
                /\ timer' = [t \in TabIds |-> IF t \in extracted THEN "armed" ELSE timer[t]]
           ELSE /\ pc' = "done"
                /\ batchResults' = << >>
                /\ UNCHANGED <<injection, timer>>

\* getAllTabsWithMetadata is called: chrome.tabs.query is issued
Start ==
    /\ pc = "idle"
    /\ pc' = "query"
    /\ UNCHANGED <<platformTabs, rawTabs, i, results, batchResults, injection, timer>>

\* chrome.tabs.query resolves; the loop starts its first batch
QueryReturn ==
    /\ pc = "query"
    /\ rawTabs' = queryAllTabs(platformTabs)
    /\ LoopHead(rawTabs', 0, << >>)
    /\ UNCHANGED platformTabs

\* position of tab t in the batch being awaited, 0 if it is not in it
PositionInBatch(t) ==
    IF pc = "batch" /\ \E k \in DOMAIN batchResults : rawTabs[i + k].id = t
    THEN CHOOSE k \in DOMAIN batchResults : rawTabs[i + k].id = t
    ELSE 0

\* a failed extraction escapes and the whole batch falls back to bare records
Settle_FailureSpreads(t, metadata) ==
    LET k == PositionInBatch(t)
    IN  IF k # 0 /\ batchResults[k] = None
        THEN batchResults' =
                [j \in DOMAIN batchResults |->
                    IF j = k THEN Some(buildTabData(rawTabs[i + k], metadata))
                    ELSE IF metadata = None /\ batchResults[j] # None
                         THEN Some(buildTabData(rawTabs[i + j], None))
                         ELSE batchResults[j]]
        ELSE UNCHANGED batchResults

\* records are collected in the order the extractions settle
Settle_CompletionOrder(t, metadata) ==
    LET k == PositionInBatch(t)
        pending == { j \in DOMAIN batchResults : batchResults[j] = None }
        settled == { batchResults[j][1].id : j \in DOMAIN batchResults \ pending }
    IN  IF k # 0 /\ t \notin settled /\ pending # {}
        THEN batchResults' =
                [batchResults EXCEPT
                    ![CHOOSE j \in pending : \A j2 \in pending : j <= j2] =
                        Some(buildTabData(rawTabs[i + k], metadata))]
        ELSE UNCHANGED batchResults

\* Promise.race settles for tab t with metadata (None: the catch branch or no
\* result); buildTabData resumes and resolves with the tab's record
Settle(t, metadata) ==
    LET k == PositionInBatch(t)
    IN  IF k # 0 /\ batchResults[k] = None
        THEN batchResults' = [batchResults EXCEPT ![k] = Some(buildTabData(rawTabs[i + k], metadata))]
        ELSE UNCHANGED batchResults

\* the executeScript promise of tab t fulfils
InjectionFulfil(t, frames) ==
    /\ injection[t] = Running
    /\ injection' = [injection EXCEPT ![t] = Fulfilled(frames)]
    /\ Settle(t, MetadataOf(frames))
    /\ UNCHANGED <<platformTabs, pc, rawTabs, i, results, timer>>

\* the executeScript promise of tab t rejects
InjectionReject(t) ==
    /\ injection[t] = Running
    /\ injection' = [injection EXCEPT ![t] = Rejected]
    /\ Settle(t, None)
    /\ UNCHANGED <<platformTabs, pc, rawTabs, i, results, timer>>

\* the timer fires and nothing listens to it
TimerFire_NoReject(t) ==
    /\ timer[t] = "armed"
    /\ timer' = [timer EXCEPT ![t] = "fired"]
    /\ UNCHANGED <<platformTabs, pc, rawTabs, i, results, injection, batchResults>>

\* the 3000 ms timer of tab t fires and rejects timeoutPromise
TimerFire(t) ==
    /\ timer[t] = "armed"
    /\ timer' = [timer EXCEPT ![t] = "fired"]
    /\ Settle(t, None)
    /\ UNCHANGED <<platformTabs, pc, rawTabs, i, results, injection>>

\* the loop resumes as soon as one promise of the batch has resolved
BatchJoin_FirstResolved ==
    /\ pc = "batch"
    /\ \E k \in DOMAIN batchResults : batchResults[k] # None
    /\ LET resolved == SelectSeq(batchResults, LAMBDA b : b # None)
       IN  LoopHead(rawTabs, i + BATCH_SIZE,
                    results \o [k \in DOMAIN resolved |-> resolved[k][1]])
    /\ UNCHANGED <<platformTabs, rawTabs>>

\* Promise.all resolves: results.push(...batchResults), i += BATCH_SIZE
BatchJoin ==
    /\ pc = "batch"
    /\ \A k \in DOMAIN batchResults : batchResults[k] # None
    /\ LoopHead(rawTabs, i + BATCH_SIZE,
                results \o [k \in DOMAIN batchResults |-> batchResults[k][1]])
    /\ UNCHANGED <<platformTabs, rawTabs>>

\* the other components at rest
IdleExtractor == page = None /\ pageMeta = None /\ pageRecord = None
IdleValidator == inputIds = << >> /\ rawResponse = None /\ outcome = None
IdleAnalyze ==
    /\ apiKey = None
    /\ swPc = "idle"
    /\ enriched = None
    /\ requests = 0
    /\ clusterOutcome = None
    /\ response = None
    /\ analysis = [status |-> "idle", workspaces |-> << >>, unclustered |-> << >>, error |-> None]
    /\ hasKey = None
    /\ colorIndex = 0
    /\ runs = 0
NoBrowserEffect == [windows |-> 0, tabs |-> 0, groups |-> 0]
IdleStore ==
    stored = << >> /\ savedWorkspaces = << >> /\ calls = << >> /\ browser = NoBrowserEffect
IdleSession == jobs = << >> /\ checks = << >> /\ applied = << >>

InitPipelineOver(enumerations) ==
    /\ platformTabs \in enumerations
    /\ pc = "idle"
    /\ rawTabs = << >>
    /\ i = 0
    /\ results = << >>
    /\ batchResults = << >>
    /\ injection = [t \in TabIds |-> NotStarted]
    /\ timer = [t \in TabIds |-> "none"]

InitPipeline == InitPipelineOver(Enumerations)

NextPipeline ==
    \/ Start
    \/ QueryReturn
    \/ \E t \in TabIds, frames \in Frames : InjectionFulfil(t, frames)
    \/ \E t \in TabIds : InjectionReject(t)
    \/ \E t \in TabIds : TimerFire(t)
    \/ BatchJoin

Init == InitPipeline /\ IdleExtractor /\ IdleValidator /\ IdleAnalyze /\ IdleStore /\ IdleSession
Next == NextPipeline /\ UNCHANGED <<extractorVars, validatorVars, analyzeVars, storeVars, sessionVars>>
Spec == Init /\ [][Next]_vars

(***************************************************************************)
(* The extractor on its own: a page, the injected function's result, and   *)
(* the record built from it.                                               *)
(***************************************************************************)
AttrValues == {NoAttr, "", "d"}
Texts == UNION { [1 .. n -> Chars] : n \in 0 .. MaxBodyLen }
Bodies ==
    { Body("null", << >>), Body("throws", << >>) } \cup { Body("text", s) : s \in Texts }

Pages ==
    { Doc(md, ot, od, oty, oi, b) :
        md \in AttrValues, ot \in {NoAttr, "x"}, od \in AttrValues,
        oty \in {NoAttr, "x"}, oi \in {NoAttr, "x"}, b \in Bodies }

SampleRawTab == RawTab(Handle(1, Some(WebUrl), "complete", "A", "icon", 7))

\* extractPageMetadata runs in the page
RunInPage ==
    /\ page # None
    /\ pageMeta = None
    /\ pageMeta' = Some(extractPageMetadata(page[1]))
    /\ UNCHANGED <<page, pageRecord>>

\* executeScript fulfils with that result and buildTabData makes the record
BuildRecord ==
    /\ pageMeta # None
    /\ pageRecord = None
    /\ pageRecord' = Some(buildTabData(SampleRawTab, MetadataOf(<< [result |-> pageMeta] >>)))
    /\ UNCHANGED <<page, pageMeta>>

InitExtractor ==
    /\ page \in { Some(d) : d \in Pages }
    /\ pageMeta = None
    /\ pageRecord = None

NextExtractor == RunInPage \/ BuildRecord

IdlePipeline ==
    /\ platformTabs = << >>
    /\ pc = "idle"
    /\ rawTabs = << >>
    /\ i = 0
    /\ results = << >>
    /\ batchResults = << >>
    /\ injection = [t \in TabIds |-> NotStarted]
    /\ timer = [t \in TabIds |-> "none"]

InitExtractorAlone ==
    InitExtractor /\ IdlePipeline /\ IdleValidator /\ IdleAnalyze /\ IdleStore /\ IdleSession
SpecExtractor ==
    InitExtractorAlone
    /\ [][NextExtractor /\ UNCHANGED <<pipelineVars, validatorVars, analyzeVars, storeVars, sessionVars>>]_vars

(***************************************************************************)
(* Clustering response validator / reconciler (llmService.ts, design       *)
(* section 4.4).  A raw response is a text, possibly inside a code fence,  *)
(* that parses as JSON or not; a parsed value has a workspaces field (a    *)
(* list, something else, or missing) and an unclustered field (a list or   *)
(* missing); a proposed workspace has a name and a tabIds list, or lacks   *)
(* them.                                                                   *)
(***************************************************************************)
ValidatorIds == 1 .. MaxId

Proposal(name, tabIds) == [name |-> name, tabIds |-> tabIds]
JsonValue(workspaces, unclustered) == [workspaces |-> workspaces, unclustered |-> unclustered]
WorkspaceList(items) == [kind |-> "list", items |-> items]
Response(fenced, json) == [fenced |-> fenced, json |-> json]
Unparsable == [kind |-> "unparsable", value |-> << >>]
Parsable(value) == [kind |-> "json", value |-> value]

\* the ids of a placement sequence that go to list j (0: unclustered)
RECURSIVE ListAt(_, _)
ListAt(a, j) ==
    IF a = << >> THEN << >>
    ELSE (IF Head(a)[2] = j THEN << Head(a)[1] >> ELSE << >>) \o ListAt(Tail(a), j)

\* a response with nW workspaces listing the ids of a; the lists of absent
\* are missing instead of empty; the first workspace has no name
PayloadOf(a, nW, absent) ==
    JsonValue(
        WorkspaceList([j \in 1 .. nW |->
            Proposal(IF j = 1 THEN None ELSE Some("N"),
                     IF j \in absent THEN None ELSE Some(ListAt(a, j)))]),
        IF 0 \in absent THEN None ELSE Some(ListAt(a, 0)))

\* values whose workspaces field is missing or is no list
OtherJsonValues ==
    { JsonValue([kind |-> "missing", items |-> << >>], Some(<< 1 >>)),
      JsonValue([kind |-> "object", items |-> << >>], None) }

\* the input id lists: the ids of the enriched tabs; the validator only runs
\* for two tabs or more (fewer never reach the LLM)
InputLists == { [k \in 1 .. n |-> k] : n \in 2 .. MaxId }

Failure(rule, detail) ==
    [ok |-> FALSE, kind |-> "MalformedResponse", rule |-> rule, detail |-> detail,
     workspaces |-> << >>, unclustered |-> << >>]
Success(workspaces, unclustered) ==
    [ok |-> TRUE, kind |-> "", rule |-> "", detail |-> << >>,
     workspaces |-> workspaces, unclustered |-> unclustered]

\* step 1: the JSON payload is the fenced block if there is one, else the trimmed text
StripFence(raw) == raw.json

RECURSIVE Flatten(_)
Flatten(lists) ==
    IF lists = << >> THEN << >> ELSE Head(lists) \o Flatten(Tail(lists))

\* a repeated id is skipped instead of reported
RECURSIVE FirstSeen_KeepFirst(_, _)
FirstSeen_KeepFirst(ids, seen) == None

\* steps 5 and 6: walk ids, adding each to seen; the first id already seen, if any
RECURSIVE FirstSeen(_, _)
FirstSeen(ids, seen) ==
    IF ids = << >> THEN None
    ELSE IF Head(ids) \in seen THEN Some(Head(ids))
    ELSE FirstSeen(Tail(ids), seen \cup {Head(ids)})

Elements(ids) == { ids[k] : k \in DOMAIN ids }

\* omitted ids are left out
Reconcile_NoRepair(given, omitted) == given

\* step 7: the input ids not yet seen are appended to unclustered
Reconcile(given, omitted) == given \o omitted

\* step 8
Normalize(w) ==
    [name |-> IF w.name = None THEN "Unnamed Workspace" ELSE w.name[1],
     tabIds |-> w.tabIds[1]]

ValidateAndReconcile(raw, ids) ==
    LET text == StripFence(raw)
        value == text.value
        items == value.workspaces.items
        lacking == { j \in DOMAIN items : items[j].tabIds = None }
        placed == Flatten([j \in DOMAIN items |-> items[j].tabIds[1]])
        given == IF value.unclustered = None THEN << >> ELSE value.unclustered[1]
        omitted == SelectSeq(ids, LAMBDA id : id \notin Elements(placed) \cup Elements(given))
    IN  IF text.kind # "json" THEN Failure("unparsable", << >>)
        ELSE IF value.workspaces.kind # "list" THEN Failure("missing workspaces array", << >>)
        ELSE IF lacking # {}
             THEN Failure("missing tabIds",
                          << items[CHOOSE j \in lacking : \A j2 \in lacking : j <= j2].name >>)
        ELSE IF FirstSeen(placed, {}) # None
             THEN Failure("duplicate tab ID", FirstSeen(placed, {}))
        ELSE IF FirstSeen(given, Elements(placed)) # None
             THEN Failure("appears in both workspace and unclustered",
                          FirstSeen(given, Elements(placed)))
        ELSE Success([j \in DOMAIN items |-> Normalize(items[j])], Reconcile(given, omitted))

\* the validator runs on the response
Validate ==
    /\ rawResponse # None
    /\ outcome = None
    /\ outcome' = Some(ValidateAndReconcile(rawResponse[1], inputIds))
    /\ UNCHANGED <<inputIds, rawResponse>>

\* a raw response: a value with at most MaxWorkspaces workspaces and
\* MaxPlacements listed ids, another value, or a text that does not parse
InitValidator ==
    /\ inputIds \in InputLists
    /\ \/ \E nW \in 0 .. MaxWorkspaces : \E absent \in SUBSET (0 .. nW) :
             \E n \in 0 .. MaxPlacements :
                \E a \in [1 .. n -> ValidatorIds \X ((0 .. nW) \ absent)] :
                   rawResponse = Some(Response(FALSE, Parsable(PayloadOf(a, nW, absent))))
       \/ \E f \in BOOLEAN, v \in OtherJsonValues : rawResponse = Some(Response(f, Parsable(v)))
       \/ \E f \in BOOLEAN : rawResponse = Some(Response(f, Unparsable))
    /\ outcome = None

NextValidator == Validate

InitValidatorAlone ==
    InitValidator /\ IdlePipeline /\ IdleExtractor /\ IdleAnalyze /\ IdleStore /\ IdleSession
SpecValidator ==
    InitValidatorAlone
    /\ [][NextValidator /\ UNCHANGED <<pipelineVars, extractorVars, analyzeVars, storeVars, sessionVars>>]_vars

(***************************************************************************)
(* Texts are sequences of characters, so that String.prototype.includes    *)
(* is a search.                                                            *)
(***************************************************************************)
Contains(s, needle) ==
    \E k \in 0 .. Len(s) - Len(needle) : SubSeq(s, k + 1, k + Len(needle)) = needle

\* workspace names an LLM response may carry
Names ==
    { << "S", "t", "r", "a", "t", "e", "g", "y" >>,
      << "T", "r", "i", "p" >>,
      << "a", "u", "t", "h", " ", "d", "o", "c", "s" >> }
NameOptions == {None} \cup { Some(n) : n \in Names }

\* a response like PayloadOf whose workspaces carry the names of names
NamedPayload(a, nW, absent, names) ==
    JsonValue(
        WorkspaceList([j \in 1 .. nW |->
            Proposal(names[j], IF j \in absent THEN None ELSE Some(ListAt(a, j)))]),
        IF 0 \in absent THEN None ELSE Some(ListAt(a, 0)))

(***************************************************************************)
(* Error classifier (llmService.ts, design sections 4.5 and 7).  A failure *)
(* has an origin (the credential check, the provider, the validator), a    *)
(* status code if the provider gave one, and a message.                    *)
(***************************************************************************)
ErrorKinds ==
    {"MissingCredential", "InvalidCredential", "RateLimited", "MalformedResponse", "Unknown"}

RaisedFailure(origin, status, message) ==
    [origin |-> origin, status |-> status, message |-> message]

\* the message of a validation failure: the violated rule and what it names
ValidationMessage(f) ==
    CASE f.rule = "unparsable" -> << "F", "a", "i", "l", "e", "d", " ", "t", "o", " ", "p", "a", "r", "s", "e", " ", "r", "e", "s", "p", "o", "n", "s", "e" >>
      [] f.rule = "missing workspaces array" -> << "m", "i", "s", "s", "i", "n", "g", " ", "w", "o", "r", "k", "s", "p", "a", "c", "e", "s", " ", "a", "r", "r", "a", "y" >>
      [] f.rule = "missing tabIds" ->
            << "W", "o", "r", "k", "s", "p", "a", "c", "e", " " >>
            \o (IF f.detail[1] = None THEN << "u", "n", "d", "e", "f", "i", "n", "e", "d" >> ELSE f.detail[1][1])
            \o << " ", "m", "i", "s", "s", "i", "n", "g", " ", "t", "a", "b", "I", "d", "s" >>
      [] f.rule = "duplicate tab ID" -> << "d", "u", "p", "l", "i", "c", "a", "t", "e", " ", "t", "a", "b", " ", "I", "D", " " >> \o << ToString(f.detail[1]) >>
      [] f.rule = "appears in both workspace and unclustered" ->
            << "t", "a", "b", " " >> \o << ToString(f.detail[1]) >>
            \o << " ", "a", "p", "p", "e", "a", "r", "s", " ", "i", "n", " ", "b", "o", "t", "h", " ", "w", "o", "r", "k", "s", "p", "a", "c", "e", " ", "a", "n", "d", " ", "u", "n", "c", "l", "u", "s", "t", "e", "r", "e", "d" >>

CredentialFailure == RaisedFailure("credential", None, << "A", "P", "I", " ", "k", "e", "y", " ", "n", "o", "t", " ", "c", "o", "n", "f", "i", "g", "u", "r", "e", "d" >>)
ValidationFailure(f) == RaisedFailure("validator", None, ValidationMessage(f))

\* what the provider client raises: a status or none, and a message
ProviderStatuses == {None, Some(401), Some(429), Some(500)}
ProviderMessages ==
    { << "r", "a", "t", "e", " ", "l", "i", "m", "i", "t" >>,
      << "u", "n", "a", "u", "t", "h", "o", "r", "i", "z", "e", "d" >>,
      << "t", "i", "m", "e", "o", "u", "t" >>,
      << "u", "n", "a", "u", "t", "h", "o", "r", "i", "z", "e", "d", " ", "r", "a", "t", "e" >>,
      << "b", "a", "d", " ", "A", "P", "I", " ", "k", "e", "y" >> }
ProviderFailures ==
    { RaisedFailure("provider", st, m) : st \in ProviderStatuses, m \in ProviderMessages }

AuthSignal(f) == f.status = Some(401) \/ Contains(f.message, << "a", "u", "t", "h" >>)
RateSignal(f) == f.status = Some(429) \/ Contains(f.message, << "r", "a", "t", "e" >>)

\* the rate-limit signal is looked at first
Classify_RateFirst(f) ==
    IF RateSignal(f) THEN "RateLimited"
    ELSE IF AuthSignal(f) THEN "InvalidCredential"
    ELSE IF f.origin = "credential" THEN "MissingCredential"
    ELSE IF f.origin = "validator" THEN "MalformedResponse"
    ELSE "Unknown"

\* section 4.5, in the order it lists the signals
Classify(f) ==
    IF AuthSignal(f) THEN "InvalidCredential"
    ELSE IF f.origin = "credential" THEN "MissingCredential"
    ELSE IF RateSignal(f) THEN "RateLimited"
    ELSE IF f.origin = "validator" THEN "MalformedResponse"
    ELSE "Unknown"

\* the human message of a classified error: a malformed response and an
\* unknown failure keep the original message
HumanMessage(kind, f) ==
    CASE kind = "MissingCredential" -> << "A", "P", "I", " ", "k", "e", "y", " ", "n", "o", "t", " ", "c", "o", "n", "f", "i", "g", "u", "r", "e", "d" >>
      [] kind = "InvalidCredential" -> << "I", "n", "v", "a", "l", "i", "d", " ", "A", "P", "I", " ", "k", "e", "y" >>
      [] kind = "RateLimited" -> << "R", "a", "t", "e", " ", "l", "i", "m", "i", "t", " ", "e", "x", "c", "e", "e", "d", "e", "d" >>
      [] OTHER -> f.message

\* the classified error clusterTabs throws for a failure
Threw(f) ==
    [ok |-> FALSE, kind |-> Classify(f), message |-> HumanMessage(Classify(f), f),
     failure |-> f]
\* the ClusteringResult clusterTabs returns
Returned(result) ==
    [ok |-> TRUE, workspaces |-> result.workspaces, unclustered |-> result.unclustered]

(***************************************************************************)
(* clusterTabs (llmService.ts, design section 4.3): the short-circuits,    *)
(* the credential check, the one request to the provider.                  *)
(***************************************************************************)
\* the enriched tab with the given id
TabOf(id) == buildTabData(RawTab(HandleOf(id, "ready", WebUrl, "complete")), None)

\* the lists getAllTabsWithMetadata may return: tabs with distinct ids
EnrichedLists ==
    { [k \in DOMAIN ids |-> TabOf(ids[k])] :
        ids \in { f \in UNION { [1 .. n -> ValidatorIds] : n \in 0 .. MaxId } :
                    \A x, y \in DOMAIN f : x # y => f[x] # f[y] } }

IdsOf(tabs) == [k \in DOMAIN tabs |-> tabs[k].id]

\* only the empty input is answered without the LLM
ShortCircuit_OnlyEmpty(tabs) ==
    IF Len(tabs) = 0 THEN Some(Success(<< >>, << >>)) ELSE None

\* zero tabs: the empty result; one tab: that tab is unclustered
ShortCircuit(tabs) ==
    IF Len(tabs) = 0 THEN Some(Success(<< >>, << >>))
    ELSE IF Len(tabs) = 1 THEN Some(Success(<< >>, << tabs[1].id >>))
    ELSE None

\* any stored value counts as a credential
hasCredential_AnyValue(key) == key # None

\* "has credential" is "value present and non-empty"
hasCredential(key) == key # None /\ key[1] # << >>

Requesting == [ok |-> FALSE, kind |-> "", message |-> << >>, failure |-> << >>]

\* the credential is checked before the short-circuits
clusterTabs_CredentialFirst(tabs, key) ==
    IF ~hasCredential(key) THEN Threw(CredentialFailure)
    ELSE IF ShortCircuit(tabs) # None THEN Returned(ShortCircuit(tabs)[1])
    ELSE Requesting

\* clusterTabs up to its request: a result, a classified error, or the request
clusterTabs(tabs, key) ==
    IF ShortCircuit(tabs) # None THEN Returned(ShortCircuit(tabs)[1])
    ELSE IF ~hasCredential(key) THEN Threw(CredentialFailure)
    ELSE Requesting

\* clusterTabs after the provider answered with a text
clusterTabsResponse(raw, tabs) ==
    LET v == ValidateAndReconcile(raw, IdsOf(tabs))
    IN  IF v.ok THEN Returned(v) ELSE Threw(ValidationFailure(v))

\* raw responses of the LLM for the input ids: one for every branch of the
\* validator, the failures that name a workspace with every name
SampleResponses(ids) ==
    LET all == [k \in DOMAIN ids |-> << ids[k], 1 >>]
        invented == MaxId + 1
    IN  { Response(f, Unparsable) : f \in BOOLEAN }
        \cup { Response(FALSE, Parsable(v)) : v \in OtherJsonValues }
        \cup { Response(FALSE, Parsable(NamedPayload(<< >>, 1, {1}, << nm >>))) :
                 nm \in NameOptions }
        \cup { Response(f, Parsable(NamedPayload(all, 1, {}, << nm >>))) :
                 f \in BOOLEAN, nm \in NameOptions }
        \cup { Response(FALSE, Parsable(NamedPayload(a, 2, {0}, << Some(n1), Some(n2) >>))) :
                 a \in { << << ids[1], 1 >> >>,
                         << << ids[1], 1 >>, << ids[1], 2 >> >>,
                         << << ids[2], 2 >>, << ids[1], 1 >> >> },
                 n1 \in Names, n2 \in Names }
        \cup { Response(FALSE, Parsable(NamedPayload(a, 1, {}, << None >>))) :
                 a \in { << << ids[1], 1 >>, << ids[1], 0 >> >>,
                         << << ids[1], 1 >>, << invented, 0 >> >>,
                         << << invented, 1 >>, << ids[2], 1 >>, << ids[1], 0 >> >>,
                         << << ids[2], 0 >> >> } }

(***************************************************************************)
(* analyzeTabs (index.ts:313-365) and the popup's handleAnalyzeTabs        *)
(* (App.tsx:185-207).                                                      *)
(***************************************************************************)
WORKSPACE_COLORS ==
    << "blue", "green", "yellow", "pink", "purple", "cyan", "orange", "red" >>

\* getNextColor at a given colorIndex
getNextColor(index) == WORKSPACE_COLORS[(index % Len(WORKSPACE_COLORS)) + 1]

\* tabMap.get(id): the last tab of the list with that id
TabMapGet(tabs, id) ==
    LET at == { k \in DOMAIN tabs : tabs[k].id = id }
    IN  IF at = {} THEN None ELSE Some(tabs[CHOOSE k \in at : \A k2 \in at : k2 <= k])

\* an id without a tab gets a record of its own
RECURSIVE Resolve_NoFilter(_, _)
Resolve_NoFilter(tabs, ids) ==
    IF ids = << >> THEN << >>
    ELSE (IF TabMapGet(tabs, Head(ids)) = None
          THEN << [TabOf(1) EXCEPT !.id = Head(ids)] >>
          ELSE << TabMapGet(tabs, Head(ids))[1] >>)
         \o Resolve_NoFilter(tabs, Tail(ids))

\* ids.map((id) => tabMap.get(id)).filter((t) => t !== undefined)
RECURSIVE Resolve(_, _)
Resolve(tabs, ids) ==
    IF ids = << >> THEN << >>
    ELSE (IF TabMapGet(tabs, Head(ids)) = None THEN << >> ELSE << TabMapGet(tabs, Head(ids))[1] >>)
         \o Resolve(tabs, Tail(ids))

\* the Workspace built for cluster j of run number run; uuidv4() is a fresh id
Workspace(cluster, j, tabs, run) ==
    [id |-> << run, j >>,
     name |-> cluster.name,
     tabs |-> Resolve(tabs, cluster.tabIds),
     isSaved |-> FALSE,
     color |-> getNextColor(j - 1)]

Succeeded(data) == [success |-> TRUE, data |-> Some(data), error |-> None]
Failed(message) == [success |-> FALSE, data |-> None, error |-> Some(message)]
AnalysisResult(workspaces, unclustered) ==
    [workspaces |-> workspaces, unclustered |-> unclustered]

\* on a failed clustering every tab is reported as unclustered
analyzeTabsResponse_Fallback(o, tabs, run) ==
    IF o.ok
    THEN Succeeded(AnalysisResult(
             [j \in DOMAIN o.workspaces |-> Workspace(o.workspaces[j], j, tabs, run)],
             Resolve(tabs, o.unclustered)))
    ELSE Succeeded(AnalysisResult(<< >>, tabs))

\* what analyzeTabs answers once clusterTabs returned or threw o
analyzeTabsResponse(o, tabs, run) ==
    IF o.ok
    THEN Succeeded(AnalysisResult(
             [j \in DOMAIN o.workspaces |-> Workspace(o.workspaces[j], j, tabs, run)],
             Resolve(tabs, o.unclustered)))
    ELSE Failed(o.message)

\* analyzeTabs from the return of clusterTabs to its own return
Finish(o, tabs) ==
    /\ clusterOutcome' = Some(o)
    /\ response' = Some(analyzeTabsResponse(o, tabs, runs))
    /\ colorIndex' = IF o.ok THEN Len(o.workspaces) ELSE colorIndex
    /\ swPc' = "idle"

ToLowerCase(s) ==
    [k \in DOMAIN s |->
        LET c == s[k]
        IN  CASE c = "A" -> "a"
              [] c = "B" -> "b"
              [] c = "C" -> "c"
              [] c = "D" -> "d"
              [] c = "E" -> "e"
              [] c = "F" -> "f"
              [] c = "G" -> "g"
              [] c = "H" -> "h"
              [] c = "I" -> "i"
              [] c = "J" -> "j"
              [] c = "K" -> "k"
              [] c = "L" -> "l"
              [] c = "M" -> "m"
              [] c = "N" -> "n"
              [] c = "O" -> "o"
              [] c = "P" -> "p"
              [] c = "Q" -> "q"
              [] c = "R" -> "r"
              [] c = "S" -> "s"
              [] c = "T" -> "t"
              [] c = "U" -> "u"
              [] c = "V" -> "v"
              [] c = "W" -> "w"
              [] c = "X" -> "x"
              [] c = "Y" -> "y"
              [] c = "Z" -> "z"
              [] OTHER -> c]

AnalysisState(status, workspaces, unclustered, error) ==
    [status |-> status, workspaces |-> workspaces, unclustered |-> unclustered,
     error |-> error]

\* the popup sends ANALYZE_TABS; the buttons that do so are shown when the
\* analysis is idle, failed, or complete without results
handleAnalyzeTabs ==
    /\ \/ analysis.status \in {"idle", "error"}
       \/ /\ analysis.status = "complete"
          /\ analysis.workspaces = << >>
          /\ analysis.unclustered = << >>
    /\ runs < MaxRuns
    /\ runs' = runs + 1
    /\ analysis' = AnalysisState("loading", << >>, << >>, None)
    /\ swPc' = "enrich"
    /\ enriched' = None
    /\ requests' = 0
    /\ clusterOutcome' = None
    /\ UNCHANGED <<apiKey, response, hasKey, colorIndex>>

\* getAllTabsWithMetadata resolves; analyzeTabs runs up to the provider request
EnrichReturn(tabs) ==
    /\ swPc = "enrich"
    /\ enriched' = Some(tabs)
    /\ IF Len(tabs) = 0
       THEN /\ response' = Some(Succeeded(AnalysisResult(<< >>, << >>)))
            /\ swPc' = "idle"
            /\ UNCHANGED <<clusterOutcome, requests, colorIndex>>
       ELSE IF clusterTabs(tabs, apiKey) = Requesting
       THEN /\ swPc' = "request"
            /\ requests' = requests + 1
            /\ UNCHANGED <<clusterOutcome, response, colorIndex>>
       ELSE /\ Finish(clusterTabs(tabs, apiKey), tabs)
            /\ UNCHANGED requests
    /\ UNCHANGED <<apiKey, analysis, hasKey, runs>>

\* getAllTabsWithMetadata rejects (chrome.tabs.query failed)
EnrichReject ==
    /\ swPc = "enrich"
    /\ response' = Some(Failed(<< "t", "a", "b", "s", " ", "q", "u", "e", "r", "y", " ", "f", "a", "i", "l", "e", "d" >>))
    /\ swPc' = "idle"
    /\ UNCHANGED <<apiKey, enriched, requests, clusterOutcome, analysis, hasKey, colorIndex, runs>>

\* the provider fails
ProviderReject(f) ==
    /\ swPc = "request"
    /\ Finish(Threw(f), enriched[1])
    /\ UNCHANGED <<apiKey, enriched, requests, analysis, hasKey, runs>>

\* the provider answers with a text
ProviderReturn(raw) ==
    /\ swPc = "request"
    /\ Finish(clusterTabsResponse(raw, enriched[1]), enriched[1])
    /\ UNCHANGED <<apiKey, enriched, requests, analysis, hasKey, runs>>

\* the popup gets the response of ANALYZE_TABS
ReceiveAnalysis ==
    /\ response # None
    /\ response' = None
    /\ IF response[1].success
       THEN /\ analysis' = AnalysisState("complete", response[1].data[1].workspaces,
                                         response[1].data[1].unclustered, None)
            /\ UNCHANGED hasKey
       ELSE IF Contains(ToLowerCase(response[1].error[1]), << "a", "p", "i", " ", "k", "e", "y" >>)
       THEN /\ analysis' = AnalysisState("needs-api-key", << >>, << >>, response[1].error)
            /\ hasKey' = Some(FALSE)
       ELSE /\ analysis' = AnalysisState("error", << >>, << >>, response[1].error)
            /\ UNCHANGED hasKey
    /\ UNCHANGED <<apiKey, swPc, enriched, requests, clusterOutcome, colorIndex, runs>>

\* the Reset button of the results view
handleReset ==
    /\ analysis.status = "complete"
    /\ analysis.workspaces # << >> \/ analysis.unclustered # << >>
    /\ analysis' = AnalysisState("idle", << >>, << >>, None)
    /\ UNCHANGED <<apiKey, swPc, enriched, requests, clusterOutcome, response, hasKey,
                   colorIndex, runs>>

\* SET_API_KEY: the service worker stores the key it is given
handleSetApiKey(key) ==
    /\ apiKey' = Some(key)
    /\ UNCHANGED <<swPc, enriched, requests, clusterOutcome, response, analysis, hasKey,
                   colorIndex, runs>>

ApiKeys == { << >>, << "k" >> }

InitAnalyze == IdleAnalyze

\* the pipeline, the extractor and the validator are modelled on their own
analyzeFrame == <<pipelineVars, extractorVars, validatorVars, storeVars, sessionVars>>

NextAnalyze ==
    \/ handleAnalyzeTabs /\ UNCHANGED analyzeFrame
    \/ \E tabs \in EnrichedLists : EnrichReturn(tabs) /\ UNCHANGED analyzeFrame
    \/ EnrichReject /\ UNCHANGED analyzeFrame
    \/ \E f \in ProviderFailures : ProviderReject(f) /\ UNCHANGED analyzeFrame
    \/ /\ swPc = "request"
       /\ \E raw \in SampleResponses(IdsOf(enriched[1])) : ProviderReturn(raw)
       /\ UNCHANGED analyzeFrame
    \/ ReceiveAnalysis /\ UNCHANGED analyzeFrame
    \/ handleReset /\ UNCHANGED analyzeFrame
    \/ \E key \in ApiKeys : handleSetApiKey(key) /\ UNCHANGED analyzeFrame

InitAnalyzeAlone ==
    InitAnalyze /\ IdlePipeline /\ IdleExtractor /\ IdleValidator /\ IdleStore /\ IdleSession
SpecAnalyze == InitAnalyzeAlone /\ [][NextAnalyze]_vars

(***************************************************************************)
(* Saved workspaces: the popup's handlers (App.tsx:178-261) and the        *)
(* service worker's saveWorkspace, getSavedWorkspaces and deleteWorkspace  *)
(* (index.ts:367-437).  A call is one message with its handler: the        *)
(* handler reads storage, writes it (save, delete), and answers; the       *)
(* popup's continuation runs on the answer.                                *)
(***************************************************************************)
DEFAULT_SETTINGS == [theme |-> "light", defaultColor |-> "blue", autoGroupOnSave |-> TRUE]

\* a message the service worker received, with the position of its handler,
\* what the handler read from storage, how its tab grouping ended, and the
\* responses sendResponse was called with
Call(type, payload) ==
    [type |-> type, payload |-> payload, at |-> "received", snapshot |-> << >>,
     grouping |-> "", responses |-> << >>]

\* sendResponse is called twice
Responded_Twice(call, r) ==
    [call EXCEPT !.at = "responded", !.snapshot = << >>,
                 !.responses = Append(Append(@, r), r)]

\* handleMessage resolves with r and the listener calls sendResponse(r)
Responded(call, r) ==
    [call EXCEPT !.at = "responded", !.snapshot = << >>, !.responses = Append(@, r)]

\* the colour the colour picker is used with here: the one outside the rotation
PickerColors == {"grey"}

\* the index of the stored workspace with that id, 0 if there is none
\* (findIndex gives the first)
FindIndex(list, id) ==
    LET at == { k \in DOMAIN list : list[k].id = id }
    IN  IF at = {} THEN 0 ELSE CHOOSE k \in at : \A k2 \in at : k <= k2

\* the object is built from its name only
workspaceToSave_NoSpread(workspace, settings) ==
    [id |-> workspace.id, name |-> workspace.name, tabs |-> << >>, isSaved |-> TRUE,
     color |-> IF workspace.color = "" THEN settings.defaultColor ELSE workspace.color]

\* { ...workspace, isSaved: true, color: workspace.color || settings.defaultColor }
workspaceToSave(workspace, settings) ==
    [workspace EXCEPT
        !.isSaved = TRUE,
        !.color = IF workspace.color = "" THEN settings.defaultColor ELSE workspace.color]

\* the workspace is pushed whether or not its id is there
Upserted_AlwaysPush(list, w) == Append(list, w)

\* savedWorkspaces after the replace-or-push of saveWorkspace
Upserted(list, w) ==
    IF FindIndex(list, w.id) > 0
    THEN [list EXCEPT ![FindIndex(list, w.id)] = w]
    ELSE Append(list, w)

\* savedWorkspaces.filter((w) => w.id !== workspaceId)
Filtered(list, id) == SelectSeq(list, LAMBDA w : w.id # id)

\* the messages that start with someone's action (GET_SAVED_WORKSPACES follows
\* from a save or a delete)
UserCalls == Len(SelectSeq(calls, LAMBDA c : c.type # "GET_SAVED_WORKSPACES"))

\* the Save button of a workspace card that is not shown as saved
handleSaveWorkspace(k) ==
    /\ analysis.status = "complete"
    /\ k \in DOMAIN analysis.workspaces
    /\ ~analysis.workspaces[k].isSaved
    /\ UserCalls < MaxUserCalls
    /\ calls' = Append(calls, Call("SAVE_WORKSPACE", analysis.workspaces[k]))
    /\ UNCHANGED <<analysis, stored, savedWorkspaces, browser>>

\* the Delete button of a saved workspace card
handleDeleteWorkspace(k) ==
    /\ k \in DOMAIN savedWorkspaces
    /\ UserCalls < MaxUserCalls
    /\ calls' = Append(calls, Call("DELETE_WORKSPACE", savedWorkspaces[k].id))
    /\ UNCHANGED <<analysis, stored, savedWorkspaces, browser>>

\* the Restore button of a saved workspace card
handleRestoreWorkspace(k) ==
    /\ k \in DOMAIN savedWorkspaces
    /\ UserCalls < MaxUserCalls
    /\ calls' = Append(calls, Call("RESTORE_WORKSPACE", savedWorkspaces[k].id))
    /\ UNCHANGED <<analysis, stored, savedWorkspaces, browser>>

\* the colour picker of a workspace card
handleUpdateWorkspaceColor(k, color) ==
    /\ analysis.status = "complete"
    /\ k \in DOMAIN analysis.workspaces
    /\ analysis' = [analysis EXCEPT !.workspaces[k].color = color]
    /\ UNCHANGED <<stored, savedWorkspaces, calls, browser>>

\* the Dismiss button of a workspace card
handleDismissWorkspace(k) ==
    /\ analysis.status = "complete"
    /\ k \in DOMAIN analysis.workspaces
    /\ analysis' =
          [analysis EXCEPT
              !.workspaces = SelectSeq(analysis.workspaces,
                                       LAMBDA w : w.id # analysis.workspaces[k].id)]
    /\ UNCHANGED <<stored, savedWorkspaces, calls, browser>>

\* the Reset button, with the saved workspaces in the model
resetAnalysis ==
    /\ handleReset
    /\ UNCHANGED storeVars

\* a message of a type handleMessage has no case for: the default branch answers
UnhandledTypes == {"PING"}
handleMessageDefault(type) ==
    /\ UserCalls < MaxUserCalls
    /\ calls' = Append(calls, Responded(Call(type, << >>), Failed("Unknown message type")))
    /\ UNCHANGED <<analysis, stored, savedWorkspaces, browser>>

\* the tabs check is left out
restoreLookup_NoTabsCheck(list, id) ==
    IF FindIndex(list, id) = 0 THEN Some(Failed("Workspace not found"))
    ELSE None

\* restoreWorkspace after its read: the failure it returns, if it returns one
restoreLookup(list, id) ==
    IF FindIndex(list, id) = 0 THEN Some(Failed("Workspace not found"))
    ELSE IF list[FindIndex(list, id)].tabs = << >> THEN Some(Failed("Workspace has no tabs"))
    ELSE None

\* chrome.storage.local.get resolves in the handler of call c: getSavedWorkspaces
\* returns, restoreWorkspace returns or goes on to create a window,
\* saveWorkspace and deleteWorkspace go on to their write
StorageRead(c) ==
    /\ c \in DOMAIN calls
    /\ calls[c].at = "received"
    /\ calls' =
          [calls EXCEPT ![c] =
              CASE calls[c].type = "GET_SAVED_WORKSPACES" ->
                        Responded(calls[c], Succeeded(stored))
                [] calls[c].type = "RESTORE_WORKSPACE" ->
                        IF restoreLookup(stored, calls[c].payload) # None
                        THEN Responded(calls[c], restoreLookup(stored, calls[c].payload)[1])
                        ELSE [calls[c] EXCEPT
                                 !.at = "window",
                                 !.snapshot = << stored[FindIndex(stored, calls[c].payload)] >>]
                [] OTHER -> [calls[c] EXCEPT !.at = "read", !.snapshot = stored]]
    /\ UNCHANGED <<analysis, stored, savedWorkspaces, browser>>

\* chrome.storage.local.set resolves: deleteWorkspace returns; saveWorkspace
\* returns or goes on to group the tabs
StorageWrite(c) ==
    /\ c \in DOMAIN calls
    /\ calls[c].at = "read"
    /\ stored' =
          IF calls[c].type = "SAVE_WORKSPACE"
          THEN Upserted(calls[c].snapshot, workspaceToSave(calls[c].payload, DEFAULT_SETTINGS))
          ELSE Filtered(calls[c].snapshot, calls[c].payload)
    /\ calls' =
          [calls EXCEPT ![c] =
              IF calls[c].type = "DELETE_WORKSPACE"
              THEN Responded(calls[c], Succeeded("null"))
              ELSE IF DEFAULT_SETTINGS.autoGroupOnSave /\ calls[c].payload.tabs # << >>
              THEN [calls[c] EXCEPT !.at = "grouping", !.snapshot = << >>]
              ELSE Responded(calls[c],
                             Succeeded(workspaceToSave(calls[c].payload, DEFAULT_SETTINGS)))]
    /\ UNCHANGED <<analysis, savedWorkspaces, browser>>

\* how createTabGroup ends: the group is made, none of the tabs exists any more,
\* or the browser rejects one of its calls
GroupOutcomes == {"grouped", "No valid tabs to group", "rejected"}

\* a failed grouping fails the save
GroupSettle_FailsSave(c, groupOutcome) ==
    /\ c \in DOMAIN calls
    /\ calls[c].at = "grouping"
    /\ browser' = [browser EXCEPT !.groups = IF groupOutcome = "grouped" THEN @ + 1 ELSE @]
    /\ calls' =
          [calls EXCEPT ![c] =
              Responded([calls[c] EXCEPT !.grouping = groupOutcome],
                        IF groupOutcome = "grouped"
                        THEN Succeeded(workspaceToSave(calls[c].payload, DEFAULT_SETTINGS))
                        ELSE Failed(groupOutcome))]
    /\ UNCHANGED <<analysis, stored, savedWorkspaces>>

\* createTabGroup of saveWorkspace settles; its error is caught and the save returns
GroupSettle(c, groupOutcome) ==
    /\ c \in DOMAIN calls
    /\ calls[c].at = "grouping"
    /\ browser' = [browser EXCEPT !.groups = IF groupOutcome = "grouped" THEN @ + 1 ELSE @]
    /\ calls' =
          [calls EXCEPT ![c] =
              Responded([calls[c] EXCEPT !.grouping = groupOutcome],
                        Succeeded(workspaceToSave(calls[c].payload, DEFAULT_SETTINGS)))]
    /\ UNCHANGED <<analysis, stored, savedWorkspaces>>

\* chrome.windows.create of restoreWorkspace settles
WindowOutcomes == {"created", "no id", "rejected"}
WindowCreate(c, windowOutcome) ==
    /\ c \in DOMAIN calls
    /\ calls[c].at = "window"
    /\ browser' = [browser EXCEPT !.windows = IF windowOutcome = "rejected" THEN @ ELSE @ + 1]
    /\ calls' =
          [calls EXCEPT ![c] =
              CASE windowOutcome = "created" -> [calls[c] EXCEPT !.at = "tabs"]
                [] windowOutcome = "no id" ->
                        Responded(calls[c], Failed("Failed to create window"))
                [] OTHER -> Responded(calls[c], Failed("rejected"))]
    /\ UNCHANGED <<analysis, stored, savedWorkspaces>>

\* the rest of restoreWorkspace: the tabs are created, the blank tab is removed,
\* the tabs are grouped (an error of the grouping is caught); or a call rejects
RestoreOutcomes == {"restored", "restored ungrouped", "rejected"}
RestoreFinish(c, restoreOutcome) ==
    /\ c \in DOMAIN calls
    /\ calls[c].at = "tabs"
    /\ browser' =
          IF restoreOutcome = "rejected" THEN browser
          ELSE [browser EXCEPT
                   !.tabs = @ + Len(calls[c].snapshot[1].tabs),
                   !.groups = IF restoreOutcome = "restored" THEN @ + 1 ELSE @]
    /\ calls' =
          [calls EXCEPT ![c] =
              IF restoreOutcome = "rejected"
              THEN Responded(calls[c], Failed("rejected"))
              ELSE Responded([calls[c] EXCEPT !.grouping = restoreOutcome],
                             Succeeded(calls[c].snapshot[1]))]
    /\ UNCHANGED <<analysis, stored, savedWorkspaces>>

\* the sender gets the answer of call c; after a save that succeeded and after
\* a delete the popup sends GET_SAVED_WORKSPACES (loadSavedWorkspaces)
Answer(c) ==
    /\ c \in DOMAIN calls
    /\ calls[c].at = "responded"
    /\ CASE calls[c].type = "SAVE_WORKSPACE" /\ calls[c].responses[1].success ->
              /\ analysis' =
                    [analysis EXCEPT
                        !.workspaces =
                            [k \in DOMAIN analysis.workspaces |->
                                IF analysis.workspaces[k].id = calls[c].payload.id
                                THEN [analysis.workspaces[k] EXCEPT !.isSaved = TRUE]
                                ELSE analysis.workspaces[k]]]
              /\ calls' = Append([calls EXCEPT ![c].at = "done"],
                                 Call("GET_SAVED_WORKSPACES", << >>))
              /\ UNCHANGED savedWorkspaces
         [] calls[c].type = "DELETE_WORKSPACE" ->
              /\ calls' = Append([calls EXCEPT ![c].at = "done"],
                                 Call("GET_SAVED_WORKSPACES", << >>))
              /\ UNCHANGED <<analysis, savedWorkspaces>>
         [] calls[c].type = "GET_SAVED_WORKSPACES" /\ calls[c].responses[1].success ->
              /\ savedWorkspaces' = calls[c].responses[1].data[1]
              /\ calls' = [calls EXCEPT ![c].at = "done"]
              /\ UNCHANGED analysis
         [] OTHER ->
              /\ calls' = [calls EXCEPT ![c].at = "done"]
              /\ UNCHANGED <<analysis, savedWorkspaces>>
    /\ UNCHANGED <<stored, browser>>

\* the responses that name every workspace alike
StoreResponses(ids) ==
    { r \in SampleResponses(ids) :
        /\ ~r.fenced
        /\ r.json.kind = "json"
        /\ r.json.value.workspaces.kind = "list"
        /\ \A j \in DOMAIN r.json.value.workspaces.items :
              r.json.value.workspaces.items[j].name = Some(CHOOSE n \in Names : Contains(n, << "S" >>)) }

\* the workspace an earlier analysis built, as it was saved then
EarlierWorkspace ==
    workspaceToSave(
        Workspace([name |-> CHOOSE n \in Names : Contains(n, << "T" >>), tabIds |-> << 1 >>],
                  1, << TabOf(1) >>, 0),
        DEFAULT_SETTINGS)

\* the popup shows the result of a successful analysis of MaxId tabs, and the
\* workspace saved earlier in its saved list
InitStore ==
    /\ stored = << EarlierWorkspace >>
    /\ savedWorkspaces = << EarlierWorkspace >>
    /\ calls = << >>
    /\ browser = NoBrowserEffect
    /\ apiKey = Some(<< "k" >>)
    /\ swPc = "idle"
    /\ enriched = Some([k \in 1 .. MaxId |-> TabOf(k)])
    /\ requests = 1
    /\ \E raw \in StoreResponses(IdsOf(enriched[1])) :
          /\ clusterOutcome = Some(clusterTabsResponse(raw, enriched[1]))
          /\ clusterOutcome[1].ok
    /\ response = None
    /\ LET data == analyzeTabsResponse(clusterOutcome[1], enriched[1], 1).data[1]
       IN  analysis = AnalysisState("complete", data.workspaces, data.unclustered, None)
    /\ hasKey = None
    /\ colorIndex = Len(clusterOutcome[1].workspaces)
    /\ runs = 1

storeFrame ==
    <<pipelineVars, extractorVars, validatorVars, apiKey, swPc, enriched, requests,
      clusterOutcome, response, hasKey, colorIndex, runs, sessionVars>>

NextStore ==
    \/ \E k \in DOMAIN analysis.workspaces : handleSaveWorkspace(k) /\ UNCHANGED storeFrame
    \/ \E k \in DOMAIN savedWorkspaces : handleDeleteWorkspace(k) /\ UNCHANGED storeFrame
    \/ \E k \in DOMAIN savedWorkspaces : handleRestoreWorkspace(k) /\ UNCHANGED storeFrame
    \/ \E k \in DOMAIN analysis.workspaces, color \in PickerColors :
          handleUpdateWorkspaceColor(k, color) /\ UNCHANGED storeFrame
    \/ \E k \in DOMAIN analysis.workspaces : handleDismissWorkspace(k) /\ UNCHANGED storeFrame
    \/ resetAnalysis /\ UNCHANGED <<pipelineVars, extractorVars, validatorVars, sessionVars>>
    \/ \E type \in UnhandledTypes : handleMessageDefault(type) /\ UNCHANGED storeFrame
    \/ \E c \in DOMAIN calls : StorageRead(c) /\ UNCHANGED storeFrame
    \/ \E c \in DOMAIN calls : StorageWrite(c) /\ UNCHANGED storeFrame
    \/ \E c \in DOMAIN calls, groupOutcome \in GroupOutcomes :
          GroupSettle(c, groupOutcome) /\ UNCHANGED storeFrame
    \/ \E c \in DOMAIN calls, windowOutcome \in WindowOutcomes :
          WindowCreate(c, windowOutcome) /\ UNCHANGED storeFrame
    \/ \E c \in DOMAIN calls, restoreOutcome \in RestoreOutcomes :
          RestoreFinish(c, restoreOutcome) /\ UNCHANGED storeFrame
    \/ \E c \in DOMAIN calls : Answer(c) /\ UNCHANGED storeFrame

InitStoreAlone == InitStore /\ IdlePipeline /\ IdleExtractor /\ IdleValidator /\ IdleSession
SpecStore == InitStoreAlone /\ [][NextStore]_vars

(***************************************************************************)
(* A popup session: the popup's checkApiKey and handleAnalyzeTabs (App.tsx *)
(* 128-207, 263-265) and the service worker's handlers, which run          *)
(* concurrently: every ANALYZE_TABS message starts its own analyzeTabs,    *)
(* all of them sharing colorIndex.                                         *)
(***************************************************************************)
MaxChecks == 2

Job(at, tabs, answer, sharedWith) ==
    [pc |-> at, tabs |-> tabs, response |-> answer, sharedWith |-> sharedWith]
Check(at, data) == [at |-> at, data |-> data]

\* the tab lists of a session: no tabs, or two
SessionLists == { << >>, << TabOf(1), TabOf(2) >> }

\* a response with more workspaces than there are colours: the first holds
\* every tab, the others none
ManyWorkspaces(ids) ==
    Response(FALSE,
             Parsable(NamedPayload([k \in DOMAIN ids |-> << ids[k], 1 >>],
                                   Len(WORKSPACE_COLORS) + 1, {},
                                   [j \in 1 .. Len(WORKSPACE_COLORS) + 1 |->
                                       Some(CHOOSE n \in Names : Contains(n, << "T" >>))])))

SessionResponses(ids) ==
    StoreResponses(ids) \cup {ManyWorkspaces(ids), Response(FALSE, Unparsable)}

SessionFailures == { RaisedFailure("provider", Some(500), << "t", "i", "m", "e", "o", "u", "t" >>) }

\* the index is left where the last analysis put it
colorIndexReset_Keep(index) == index

\* colorIndex = 0 before the workspaces are built
colorIndexReset(index) == 0

\* clusterResult.workspaces.map(...): getNextColor() for one workspace after the
\* other, starting at index
WorkspacesFrom(clusters, tabs, run, index) ==
    [j \in DOMAIN clusters |->
        [Workspace(clusters[j], j, tabs, run) EXCEPT !.color = getNextColor(index + j - 1)]]

\* what analyzeTabs answers once clusterTabs returned or threw o, with colorIndex
\* at index
jobResponse(o, tabs, run, index) ==
    IF o.ok
    THEN Succeeded(AnalysisResult(
             WorkspacesFrom(o.workspaces, tabs, run, colorIndexReset(index)),
             Resolve(tabs, o.unclustered)))
    ELSE Failed(o.message)

\* the other analyzeTabs runs that have not returned yet
Unreturned(j) == { k \in DOMAIN jobs : k # j /\ jobs[k].pc \in {"enrich", "request"} }

\* job j from the return of clusterTabs to its own return
JobFinish(j, o, tabs) ==
    /\ jobs' = [jobs EXCEPT ![j] = Job("answered", Some(tabs),
                                       Some(jobResponse(o, tabs, j, colorIndex)),
                                       Unreturned(j))]
    /\ colorIndex' = IF o.ok THEN colorIndexReset(colorIndex) + Len(o.workspaces)
                     ELSE colorIndex

\* handleAnalyzeTabs up to its await
SendAnalyze ==
    /\ runs < MaxRuns
    /\ runs' = runs + 1
    /\ analysis' = AnalysisState("loading", << >>, << >>, None)
    /\ jobs' = Append(jobs, Job("enrich", None, None, {}))
    /\ UNCHANGED <<apiKey, hasKey, colorIndex, checks, applied>>

\* the button of the Organize view: Analyze tabs, Retry, Analyze again
onAnalyze ==
    /\ \/ analysis.status \in {"idle", "error"}
       \/ /\ analysis.status = "complete"
          /\ analysis.workspaces = << >>
          /\ analysis.unclustered = << >>
    /\ SendAnalyze

\* Cmd/Ctrl + Enter
handleKeyDown ==
    /\ analysis.status = "idle"
    /\ hasKey = Some(TRUE)
    /\ SendAnalyze

\* the Reset button during a session
sessionReset ==
    /\ handleReset
    /\ UNCHANGED sessionVars

\* the settings panel saves a key (SET_API_KEY), then checkApiKey runs
handleApiKeySaved(key) ==
    /\ key # << >>
    /\ Len(checks) < MaxChecks
    /\ apiKey' = Some(key)
    /\ checks' = Append(checks, Check("sent", FALSE))
    /\ UNCHANGED <<analysis, hasKey, colorIndex, runs, jobs, applied>>

\* the service worker answers HAS_API_KEY
handleHasApiKey(c) ==
    /\ c \in DOMAIN checks
    /\ checks[c].at = "sent"
    /\ checks' = [checks EXCEPT ![c] = Check("answered", hasCredential(apiKey))]
    /\ UNCHANGED <<apiKey, analysis, hasKey, colorIndex, runs, jobs, applied>>

\* checkApiKey after its await
checkApiKeyReturn(c) ==
    /\ c \in DOMAIN checks
    /\ checks[c].at = "answered"
    /\ checks' = [checks EXCEPT ![c].at = "done"]
    /\ hasKey' = Some(checks[c].data)
    /\ analysis' =
          IF ~checks[c].data THEN [analysis EXCEPT !.status = "needs-api-key"]
          ELSE IF analysis.status = "needs-api-key" THEN [analysis EXCEPT !.status = "idle"]
          ELSE analysis
    /\ UNCHANGED <<apiKey, colorIndex, runs, jobs, applied>>

\* getAllTabsWithMetadata of job j resolves; analyzeTabs runs up to the provider request
JobEnrich(j, tabs) ==
    /\ j \in DOMAIN jobs
    /\ jobs[j].pc = "enrich"
    /\ IF Len(tabs) = 0
       THEN /\ jobs' = [jobs EXCEPT ![j] =
                           Job("answered", Some(tabs),
                               Some(Succeeded(AnalysisResult(<< >>, << >>))), Unreturned(j))]
            /\ UNCHANGED colorIndex
       ELSE IF clusterTabs(tabs, apiKey) = Requesting
       THEN /\ jobs' = [jobs EXCEPT ![j] = Job("request", Some(tabs), None, {})]
            /\ UNCHANGED colorIndex
       ELSE JobFinish(j, clusterTabs(tabs, apiKey), tabs)
    /\ UNCHANGED <<apiKey, analysis, hasKey, runs, checks, applied>>

\* the provider answers job j with a text
JobProviderReturn(j, raw) ==
    /\ j \in DOMAIN jobs
    /\ jobs[j].pc = "request"
    /\ JobFinish(j, clusterTabsResponse(raw, jobs[j].tabs[1]), jobs[j].tabs[1])
    /\ UNCHANGED <<apiKey, analysis, hasKey, runs, checks, applied>>

\* the provider fails job j
JobProviderReject(j, f) ==
    /\ j \in DOMAIN jobs
    /\ jobs[j].pc = "request"
    /\ JobFinish(j, Threw(f), jobs[j].tabs[1])
    /\ UNCHANGED <<apiKey, analysis, hasKey, runs, checks, applied>>

\* handleAnalyzeTabs after its await: the popup applies the response of job j
JobApply(j) ==
    /\ j \in DOMAIN jobs
    /\ jobs[j].pc = "answered"
    /\ jobs' = [jobs EXCEPT ![j].pc = "applied"]
    /\ applied' = Append(applied, j)
    /\ LET r == jobs[j].response[1]
       IN  IF r.success
           THEN /\ analysis' = AnalysisState("complete", r.data[1].workspaces,
                                             r.data[1].unclustered, None)
                /\ UNCHANGED hasKey
           ELSE IF Contains(ToLowerCase(r.error[1]), << "a", "p", "i", " ", "k", "e", "y" >>)
           THEN /\ analysis' = AnalysisState("needs-api-key", << >>, << >>, r.error)
                /\ hasKey' = Some(FALSE)
           ELSE /\ analysis' = AnalysisState("error", << >>, << >>, r.error)
                /\ UNCHANGED hasKey
    /\ UNCHANGED <<apiKey, colorIndex, runs, checks>>

\* the popup has opened: init has sent HAS_API_KEY; a key is stored or not
InitSession ==
    /\ apiKey \in {None, Some(<< "k" >>)}
    /\ swPc = "idle"
    /\ enriched = None
    /\ requests = 0
    /\ clusterOutcome = None
    /\ response = None
    /\ analysis = AnalysisState("idle", << >>, << >>, None)
    /\ hasKey = None
    /\ colorIndex = 0
    /\ runs = 0
    /\ jobs = << >>
    /\ checks = << Check("sent", FALSE) >>
    /\ applied = << >>

sessionFrame ==
    <<pipelineVars, extractorVars, validatorVars, storeVars, swPc, enriched, requests,
      clusterOutcome, response>>

NextSession ==
    \/ onAnalyze /\ UNCHANGED sessionFrame
    \/ handleKeyDown /\ UNCHANGED sessionFrame
    \/ sessionReset /\ UNCHANGED <<pipelineVars, extractorVars, validatorVars, storeVars>>
    \/ \E key \in ApiKeys : handleApiKeySaved(key) /\ UNCHANGED sessionFrame
    \/ \E c \in DOMAIN checks : handleHasApiKey(c) /\ UNCHANGED sessionFrame
    \/ \E c \in DOMAIN checks : checkApiKeyReturn(c) /\ UNCHANGED sessionFrame
    \/ \E j \in DOMAIN jobs, tabs \in SessionLists : JobEnrich(j, tabs) /\ UNCHANGED sessionFrame
    \/ \E j \in DOMAIN jobs :
          /\ jobs[j].pc = "request"
          /\ \E raw \in SessionResponses(IdsOf(jobs[j].tabs[1])) : JobProviderReturn(j, raw)
          /\ UNCHANGED sessionFrame
    \/ \E j \in DOMAIN jobs, f \in SessionFailures : JobProviderReject(j, f) /\ UNCHANGED sessionFrame
    \/ \E j \in DOMAIN jobs : JobApply(j) /\ UNCHANGED sessionFrame

InitSessionAlone ==
    InitSession /\ IdlePipeline /\ IdleExtractor /\ IdleValidator /\ IdleStore
SpecSession == InitSessionAlone /\ [][NextSession]_vars

\* the timers of the event loop fire, and a resolved Promise.all resumes the loop;
\* nothing makes an injection settle.  Termination does not depend on which
\* protected URL or ready status the platform reports: one of each is run.
InitFair ==
    /\ InitPipelineOver(EnumerationsOver({Url("chrome", TRUE, "settings")}, {"complete"}))
    /\ IdleExtractor
    /\ IdleValidator
    /\ IdleAnalyze
    /\ IdleStore
    /\ IdleSession

FairSpec ==
    /\ InitFair
    /\ [][Next]_vars
    /\ WF_vars(BatchJoin /\ UNCHANGED <<extractorVars, validatorVars, analyzeVars, storeVars, sessionVars>>)
    /\ \A t \in TabIds :
          WF_vars(TimerFire(t)
                  /\ UNCHANGED <<extractorVars, validatorVars, analyzeVars, storeVars, sessionVars>>)

(***************************************************************************)
(* Properties of the enrichment pipeline.                                  *)
(***************************************************************************)
\* a tab handle the pipeline has to enrich: it has an id and a URL, and the URL
\* is none of the protected ones
Eligible(tab) ==
    /\ tab.id # 0
    /\ tab.url # None
    /\ tab.url[1] \notin ProtectedSamples

EligibleTabs == SelectSeq(platformTabs, Eligible)

\* the records produced so far: the output list and the resolved promises of the batch
Records ==
    { results[k] : k \in DOMAIN results }
    \cup { batchResults[k][1] : k \in { j \in DOMAIN batchResults : batchResults[j] # None } }

\* the batch (from 0) of position p
BatchNumber(p) == (p - 1) \div BATCH_SIZE

NoMetadata(r) == r.description = None /\ r.ogTags = None /\ r.contentSnippet = None

HasMetadata(r, m) ==
    /\ r.description = m.description
    /\ r.ogTags = m.ogTags
    /\ r.contentSnippet = m.contentSnippet

\* the extraction of tab t failed: the injection rejected or is still unsettled
\* after the timer fired
ExtractionFailed(t) ==
    \/ injection[t] = Rejected
    \/ injection[t] = Running /\ timer[t] = "fired"

\* the extraction of tab t returned metadata m before its timer fired
ExtractionReturned(t, m) ==
    /\ injection[t].state = "fulfilled"
    /\ injection[t].value[1].result = Some(m)
    /\ timer[t] = "armed"

\* C4: one tab's extraction failure or timeout never fails the run nor touches
\* another tab's record: the finished run has one record per eligible tab, a
\* failed tab's record has no description, ogTags, contentSnippet, and a tab
\* whose extraction returned metadata in time has exactly that metadata
C4_FailureIsolation ==
    /\ pc = "done" => Len(results) = Len(EligibleTabs)
    /\ \A r \in Records :
          /\ ExtractionFailed(r.id) => NoMetadata(r)
          /\ \A f \in Frames :
                f[1].result # None /\ ExtractionReturned(r.id, f[1].result[1])
                    => HasMetadata(r, f[1].result[1])

\* a finished run of more than one batch in which a tab timed out (its injection
\* never settled) while a tab of the same batch got its metadata
C4_Witness ==
    /\ pc = "done"
    /\ Len(results) > BATCH_SIZE
    /\ \E a, b \in DOMAIN results :
          /\ BatchNumber(a) = BatchNumber(b)
          /\ injection[results[a].id] = Running
          /\ timer[results[a].id] = "fired"
          /\ NoMetadata(results[a])
          /\ ~NoMetadata(results[b])

\* the injections that were started and have not settled
Unsettled == { t \in TabIds : injection[t] = Running }

\* C5: at every moment at most BATCH_SIZE page-context extractions are
\* started and unsettled
C5_BoundedExtractions == Cardinality(Unsettled) <= BATCH_SIZE

\* position p (from 1) of rawTabs has produced its record
RecordProduced(p) ==
    \/ p <= Len(results)
    \/ pc = "batch" /\ p - i \in DOMAIN batchResults /\ batchResults[p - i] # None

StrictSequence ==
    \A p, q \in DOMAIN rawTabs :
        injection[rawTabs[p].id] # NotStarted /\ BatchNumber(q) < BatchNumber(p)
            => RecordProduced(q)

WholeBatchAppend ==
    results' # results =>
        /\ Len(results) % BATCH_SIZE = 0
        /\ Len(results') = Min(Len(results) + BATCH_SIZE, Len(rawTabs))
        /\ SubSeq(results', 1, Len(results)) = results
        /\ \A p \in Len(results) + 1 .. Len(results') : results'[p].id = rawTabs[p].id

\* C6: batches run strictly in sequence: no extraction of a later batch is
\* started before every tab of the earlier batches has its record, and the
\* output list only grows by one whole batch at a time
C6_BatchesInSequence == []StrictSequence /\ [][WholeBatchAppend]_vars

\* the second batch has an extraction running
C6_Witness ==
    /\ pc = "batch"
    /\ i = BATCH_SIZE
    /\ Len(results) = BATCH_SIZE
    /\ \E p \in DOMAIN rawTabs : p > BATCH_SIZE /\ injection[rawTabs[p].id] = Running

\* C7: the output of a finished run is the eligible tabs in enumeration order,
\* one record per tab with the tab's id
C7_EnumerationOrder ==
    pc = "done" =>
        /\ Len(results) = Len(EligibleTabs)
        /\ \A k \in DOMAIN results : results[k].id = EligibleTabs[k].id

\* a finished run in which the second tab of a batch settled while the first
\* was still racing, and the first then timed out
C7_Witness ==
    /\ pc = "done"
    /\ Len(results) >= 2
    /\ injection[results[1].id] = Running
    /\ timer[results[1].id] = "fired"
    /\ injection[results[2].id].state = "fulfilled"
    /\ timer[results[2].id] = "armed"
    /\ \E k \in DOMAIN platformTabs : ~Eligible(platformTabs[k])

\* the race of tab t is decided in this step
Decided(t) ==
    /\ PositionInBatch(t) # 0
    /\ batchResults[PositionInBatch(t)] = None
    /\ batchResults'[PositionInBatch(t)] # None

FirstSettlerWins ==
    \A t \in TabIds :
        /\ Decided(t) =>
              \/ /\ timer[t] = "armed" /\ timer'[t] = "fired"
                 /\ NoMetadata(batchResults'[PositionInBatch(t)][1])
              \/ /\ injection[t] = Running /\ injection'[t] = Rejected
                 /\ NoMetadata(batchResults'[PositionInBatch(t)][1])
              \/ /\ injection[t] = Running /\ injection'[t].state = "fulfilled"
                 /\ IF injection'[t].value[1].result = None
                    THEN NoMetadata(batchResults'[PositionInBatch(t)][1])
                    ELSE HasMetadata(batchResults'[PositionInBatch(t)][1],
                                     injection'[t].value[1].result[1])
        /\ \A r \in Records : r.id = t => \E r2 \in Records' : r2 = r

\* C8: once enumeration has returned the run terminates, also when injections
\* never settle; a tab's record is decided by whichever of its injection and
\* its timer settles first (later settlements change nothing), and a timeout
\* gives a record without metadata, as an extraction error does
C8_Terminates == (pc = "batch" ~> pc = "done") /\ [][FirstSettlerWins]_vars

\* a finished run with an injection that never settled
C8_Witness ==
    /\ pc = "done"
    /\ \E k \in DOMAIN results :
          /\ injection[results[k].id] = Running
          /\ timer[results[k].id] = "fired"
          /\ NoMetadata(results[k])

\* C9: a tab with a protected URL never has an extraction started and never
\* has a record
C9_ProtectedExcluded ==
    \A k \in DOMAIN platformTabs :
        platformTabs[k].url # None /\ platformTabs[k].url[1] \in ProtectedSamples =>
            /\ platformTabs[k].id # 0 =>
                  /\ injection[platformTabs[k].id] = NotStarted
                  /\ timer[platformTabs[k].id] = "none"
            /\ \A r \in Records : r.id # platformTabs[k].id /\ r.url \notin ProtectedSamples

\* a finished run over an enumeration with a protected tab between enriched ones
C9_Witness ==
    /\ pc = "done"
    /\ Len(results) >= 2
    /\ \E k \in DOMAIN platformTabs :
          /\ platformTabs[k].url # None
          /\ platformTabs[k].url[1] \in ProtectedSamples
          /\ \E a, b \in DOMAIN platformTabs :
                a < k /\ k < b /\ Eligible(platformTabs[a]) /\ Eligible(platformTabs[b])

(***************************************************************************)
(* Properties of the extractor.                                            *)
(***************************************************************************)
\* the page has a non-empty meta description or a non-empty og:description
DescriptionPresent(doc) ==
    \/ doc.metaDescription \notin {NoAttr, ""}
    \/ doc.ogDescription \notin {NoAttr, ""}

\* C10: contentSnippet is populated only for a page with neither a non-empty
\* meta description nor a non-empty og:description; with either present the
\* metadata and the record have no contentSnippet, whatever the body holds
C10_SnippetSuppressed ==
    /\ pageMeta # None /\ pageMeta[1].contentSnippet # None => ~DescriptionPresent(page[1])
    /\ pageRecord # None /\ pageRecord[1].contentSnippet # None => ~DescriptionPresent(page[1])

\* a page with only an og:description and visible body text, whose record was built
C10_Witness ==
    /\ pageRecord # None
    /\ page[1].metaDescription = ""
    /\ page[1].ogDescription = "d"
    /\ page[1].body.kind = "text"
    /\ \E k \in DOMAIN page[1].body.text : page[1].body.text[k] \notin Whitespace
    /\ pageRecord[1].contentSnippet = None
    /\ pageRecord[1].ogTags # None

(***************************************************************************)
(* Properties of the response validator / reconciler.                      *)
(***************************************************************************)
Occurrences(ids, id) == Cardinality({ k \in DOMAIN ids : ids[k] = id })

\* every id a ClusteringResult lists, workspaces first
ResultIds(r) == Flatten([j \in DOMAIN r.workspaces |-> r.workspaces[j].tabIds]) \o r.unclustered

\* the parsed value of the response under validation
ParsedValue == rawResponse[1].json.value
IsParsed == rawResponse # None /\ rawResponse[1].json.kind = "json"
HasWorkspaceList == IsParsed /\ ParsedValue.workspaces.kind = "list"

\* the ids the response puts in workspace j and in unclustered
PayloadTabIds(j) ==
    IF ParsedValue.workspaces.items[j].tabIds = None
    THEN << >>
    ELSE ParsedValue.workspaces.items[j].tabIds[1]
PayloadUnclustered ==
    IF ParsedValue.unclustered = None THEN << >> ELSE ParsedValue.unclustered[1]

\* C1: a ClusteringResult lists exactly the input ids, each exactly once:
\* none missing, none twice, none from outside the input
C1_PartitionComplete ==
    outcome # None /\ outcome[1].ok =>
        \A id \in ValidatorIds :
            Occurrences(ResultIds(outcome[1]), id) = IF id \in Elements(inputIds) THEN 1 ELSE 0

\* the response lists an id in two workspaces, or in a workspace and in unclustered
CrossDuplicate ==
    /\ HasWorkspaceList
    /\ \E id \in ValidatorIds :
          \E j \in DOMAIN ParsedValue.workspaces.items :
              /\ id \in Elements(PayloadTabIds(j))
              /\ \/ id \in Elements(PayloadUnclustered)
                 \/ \E j2 \in DOMAIN ParsedValue.workspaces.items :
                        j2 # j /\ id \in Elements(PayloadTabIds(j2))

\* C2: a response that lists an id in two workspaces, or in a workspace and in
\* unclustered, fails validation with MalformedResponse and gives no result
C2_DuplicateRejected ==
    outcome # None /\ CrossDuplicate =>
        /\ ~outcome[1].ok
        /\ outcome[1].kind = "MalformedResponse"
        /\ outcome[1].workspaces = << >>
        /\ outcome[1].unclustered = << >>

\* both kinds of duplicate were rejected: an id in two workspaces, and an id in
\* a workspace and in unclustered of an otherwise well-formed response
C2_Witness ==
    /\ outcome # None
    /\ CrossDuplicate
    /\ \A j \in DOMAIN ParsedValue.workspaces.items :
          ParsedValue.workspaces.items[j].tabIds # None
    /\ \/ outcome[1].rule = "duplicate tab ID" /\ PayloadUnclustered # << >>
       \/ /\ outcome[1].rule = "appears in both workspace and unclustered"
          /\ Len(ParsedValue.workspaces.items) = MaxWorkspaces

\* the response has a workspace list, every workspace has tabIds, and no id is
\* listed twice
StructurallyValid ==
    /\ HasWorkspaceList
    /\ \A j \in DOMAIN ParsedValue.workspaces.items :
          ParsedValue.workspaces.items[j].tabIds # None
    /\ LET listed ==
              Flatten([j \in DOMAIN ParsedValue.workspaces.items |-> PayloadTabIds(j)])
                  \o PayloadUnclustered
       IN  \A id \in ValidatorIds : Occurrences(listed, id) <= 1

\* the input ids the response lists nowhere
OmittedIds ==
    { id \in Elements(inputIds) :
        /\ id \notin Elements(PayloadUnclustered)
        /\ \A j \in DOMAIN ParsedValue.workspaces.items : id \notin Elements(PayloadTabIds(j)) }

\* C3: for a structurally valid response the run succeeds, every omitted input
\* id is appended to unclustered, and the ids the response placed stay where
\* it put them
C3_OmissionRepair ==
    outcome # None /\ StructurallyValid =>
        /\ outcome[1].ok
        /\ Len(outcome[1].workspaces) = Len(ParsedValue.workspaces.items)
        /\ \A j \in DOMAIN outcome[1].workspaces :
              outcome[1].workspaces[j].tabIds = PayloadTabIds(j)
        /\ Len(outcome[1].unclustered) = Len(PayloadUnclustered) + Cardinality(OmittedIds)
        /\ SubSeq(outcome[1].unclustered, 1, Len(PayloadUnclustered)) = PayloadUnclustered
        /\ \A id \in OmittedIds :
              \E k \in Len(PayloadUnclustered) + 1 .. Len(outcome[1].unclustered) :
                  outcome[1].unclustered[k] = id

\* a response that places one id in a workspace, one in unclustered and omits
\* the others was reconciled
C3_Witness ==
    /\ outcome # None
    /\ StructurallyValid
    /\ Len(inputIds) = MaxId
    /\ Cardinality(OmittedIds) >= 1
    /\ \E j \in DOMAIN ParsedValue.workspaces.items : PayloadTabIds(j) # << >>
    /\ PayloadUnclustered # << >>
    /\ outcome[1].ok

(***************************************************************************)
(* Properties of a clustering run: analyzeTabs with clusterTabs.           *)
(***************************************************************************)
\* the run has its tab list
RunOver(n) == enriched # None /\ Len(enriched[1]) = n
NoKeyStored == apiKey = None \/ apiKey = Some(<< >>)
RunThrew == clusterOutcome # None /\ ~clusterOutcome[1].ok
RunReturned == clusterOutcome # None /\ clusterOutcome[1].ok

\* C11: a clustering run over zero tabs returns {workspaces: [], unclustered: []},
\* a run over exactly one tab returns {workspaces: [], unclustered: [that tab's
\* id]}, and in both cases no request to the LLM is issued.
C11_ShortCircuit ==
    /\ RunOver(0) =>
          /\ requests = 0
          /\ swPc = "idle"
          /\ clusterOutcome = None
          /\ response # None => response[1] = Succeeded(AnalysisResult(<< >>, << >>))
    /\ RunOver(1) =>
          /\ requests = 0
          /\ swPc = "idle"
          /\ RunReturned
          /\ clusterOutcome[1].workspaces = << >>
          /\ clusterOutcome[1].unclustered = << enriched[1][1].id >>
          /\ response # None => response[1] = Succeeded(AnalysisResult(<< >>, enriched[1]))

\* a run over one tab has answered while a key is stored
C11_Witness ==
    /\ RunOver(1)
    /\ apiKey = Some(<< "k" >>)
    /\ response # None
    /\ response[1].success

\* C12: a clustering run over zero tabs or exactly one tab never produces an
\* error, in every credential state, also when no API key is stored.
C12_ShortCircuitNoError ==
    (RunOver(0) \/ RunOver(1)) =>
        /\ ~RunThrew
        /\ response # None => response[1].success
        /\ analysis.status \notin {"error", "needs-api-key"}

\* a run over one tab was answered, and the popup shows it, with no key stored
C12_Witness ==
    /\ RunOver(1)
    /\ NoKeyStored
    /\ response = None
    /\ analysis.status = "complete"
    /\ analysis.unclustered = enriched[1]

\* the step of analyzeTabs that hands the tabs to the clustering
ClusteringRequested == swPc = "enrich" /\ enriched' # None
FailsMissingCredential ==
    /\ clusterOutcome' # None
    /\ ~clusterOutcome'[1].ok
    /\ clusterOutcome'[1].kind = "MissingCredential"
    /\ requests' = 0
    /\ swPc' = "idle"

\* C13 as stated: if no API key is stored (absent or empty) when a clustering run
\* is requested, the run fails with MissingCredential and no request to the LLM
\* provider is issued during that run.
C13_MissingCredentialAnyRun ==
    [][(ClusteringRequested /\ NoKeyStored) => FailsMissingCredential]_vars

\* C13 amended: if no API key is stored (absent or empty) when a clustering run
\* over two or more tabs is requested, the run fails with MissingCredential and
\* no request to the LLM provider is issued during that run.
C13_MissingCredential ==
    [][(ClusteringRequested /\ NoKeyStored /\ Len(enriched'[1]) >= 2)
          => FailsMissingCredential]_vars

\* a run over two tabs or more has failed for want of a key, the key being empty
C13_Witness ==
    /\ enriched # None
    /\ Len(enriched[1]) >= 2
    /\ apiKey = Some(<< >>)
    /\ RunThrew
    /\ clusterOutcome[1].kind = "MissingCredential"
    /\ requests = 0
    /\ swPc = "idle"

\* C14 as stated: the classifier maps every failure to exactly one of the five
\* kinds; every provider failure with status 401 is InvalidCredential and every
\* failure whose message contains "rate" is RateLimited.
C14_ClassifierAnyRate ==
    RunThrew =>
        LET f == clusterOutcome[1].failure
        IN  /\ clusterOutcome[1].kind \in ErrorKinds
            /\ (f.origin = "provider" /\ f.status = Some(401))
                  => clusterOutcome[1].kind = "InvalidCredential"
            /\ Contains(f.message, << "r", "a", "t", "e" >>) => clusterOutcome[1].kind = "RateLimited"

\* C14 amended: the classifier maps every failure to exactly one of the five
\* kinds; every provider failure with status 401 is InvalidCredential, and every
\* provider failure whose message contains "rate" and that carries no
\* authentication signal (status 401, "auth" in the message) is RateLimited.
C14_Classifier ==
    RunThrew =>
        LET f == clusterOutcome[1].failure
        IN  /\ clusterOutcome[1].kind \in ErrorKinds
            /\ (f.origin = "provider" /\ f.status = Some(401))
                  => clusterOutcome[1].kind = "InvalidCredential"
            /\ (/\ f.origin = "provider"
                /\ Contains(f.message, << "r", "a", "t", "e" >>)
                /\ f.status # Some(401)
                /\ ~Contains(f.message, << "a", "u", "t", "h" >>))
                  => clusterOutcome[1].kind = "RateLimited"

\* the provider failed with status 401 and a message that speaks of a rate
C14_Witness ==
    /\ RunThrew
    /\ clusterOutcome[1].failure.origin = "provider"
    /\ clusterOutcome[1].failure.status = Some(401)
    /\ Contains(clusterOutcome[1].failure.message, << "r", "a", "t", "e" >>)
    /\ clusterOutcome[1].kind = "InvalidCredential"

\* C15: every failure raised by the response validator reaches the caller
\* classified as MalformedResponse with the violated rule in its message, for
\* every text the message may embed (a workspace name, an id).
C15_ValidatorFailureMalformed ==
    (RunThrew /\ clusterOutcome[1].failure.origin = "validator") =>
        /\ clusterOutcome[1].kind = "MalformedResponse"
        /\ clusterOutcome[1].message = clusterOutcome[1].failure.message

\* C16: when a clustering run fails (validation failure or provider error) no
\* partial clustering is surfaced: the ANALYZE_TABS response is a failure that
\* carries only an error message, and the popup's analysis state then holds
\* empty workspaces and unclustered lists.
FailureResponse ==
    (RunThrew /\ response # None) =>
        /\ ~response[1].success
        /\ response[1].data = None
        /\ response[1].error = Some(clusterOutcome[1].message)
FailureApplied ==
    (RunThrew /\ response # None /\ response' = None) =>
        /\ analysis'.status \in {"error", "needs-api-key"}
        /\ analysis'.workspaces = << >>
        /\ analysis'.unclustered = << >>
C16_NoPartialResult == []FailureResponse /\ [][FailureApplied]_vars

\* the validator rejected a response that placed some tabs, and the popup shows the error
C16_Witness ==
    /\ RunThrew
    /\ clusterOutcome[1].failure.origin = "validator"
    /\ clusterOutcome[1].kind = "MalformedResponse"
    /\ response = None
    /\ analysis.status = "error"

\* the tab records of a response, in the order of the workspaces, then unclustered
RecordsOf(data) ==
    Flatten([j \in DOMAIN data.workspaces |-> data.workspaces[j].tabs]) \o data.unclustered
Count(records, r) == Cardinality({ k \in DOMAIN records : records[k] = r })

\* C17: in every successful ANALYZE_TABS response each enriched tab record
\* appears in exactly one place (the tabs of one workspace, or unclustered), and
\* every tab record of the response is one of the run's enriched tabs.
C17_ResponsePartition ==
    (response # None /\ response[1].success) =>
        LET records == RecordsOf(response[1].data[1])
        IN  /\ \A k \in DOMAIN enriched[1] : Count(records, enriched[1][k]) = 1
            /\ \A k \in DOMAIN records : \E e \in DOMAIN enriched[1] : records[k] = enriched[1][e]

\* the clustering placed an id that no enriched tab has, and a workspace has tabs
C17_Witness ==
    /\ response # None
    /\ response[1].success
    /\ RunReturned
    /\ \E id \in { clusterOutcome[1].unclustered[k] : k \in DOMAIN clusterOutcome[1].unclustered } :
          \A e \in DOMAIN enriched[1] : enriched[1][e].id # id
    /\ \E j \in DOMAIN response[1].data[1].workspaces :
          response[1].data[1].workspaces[j].tabs # << >>

(***************************************************************************)
(* Readiness gating and duplicates in the enrichment pipeline.             *)
(***************************************************************************)
\* the load status the platform reports for the tab with id t ("": none)
PlatformStatus(t) == platformTabs[t].status
ExtractionStarts(t) == injection[t] # Running /\ injection'[t] = Running

\* a tab that is not ready ends with a record without metadata, never extracted
NotReadyRecorded ==
    pc = "done" =>
        \A t \in TabIds :
            (Eligible(platformTabs[t]) /\ PlatformStatus(t) \in {"loading", "unloaded"}) =>
                /\ injection[t] = NotStarted
                /\ \E k \in DOMAIN results : results[k].id = t /\ NoMetadata(results[k])

C20_DeduplicatedByUrl ==
    pc = "done" =>
        \A j, k \in DOMAIN results : j # k => results[j].url # results[k].url

(***************************************************************************)
(* Workspaces after their construction.                                    *)
(***************************************************************************)
Members(list) == { list[k] : k \in DOMAIN list }

\* every copy of a workspace there is: in the popup's analysis and saved list,
\* in storage, and in the messages and handlers on their way
Copies ==
    Members(analysis.workspaces) \cup Members(savedWorkspaces) \cup Members(stored)
    \cup UNION { Members(calls[c].snapshot) : c \in DOMAIN calls }
    \cup { calls[c].payload :
             c \in { d \in DOMAIN calls :
                       calls[d].type = "SAVE_WORKSPACE" /\ calls[d].at # "done" } }

\* the workspaces as analyzeTabs constructed them
Constructed ==
    { Workspace(clusterOutcome[1].workspaces[j], j, enriched[1], runs) :
        j \in DOMAIN clusterOutcome[1].workspaces }
    \cup { [EarlierWorkspace EXCEPT !.isSaved = FALSE] }

\* C19 as stated: after a Workspace has been constructed by an analysis, no
\* operation of the popup or the service worker changes any of its fields other
\* than the saved flag (isSaved), in the popup state or in storage.
C19_OnlySavedFlagChanges ==
    \A w \in Copies : [w EXCEPT !.isSaved = FALSE] \in Constructed

\* C19 amended: after a Workspace has been constructed by an analysis, no
\* operation of the popup or the service worker changes any of its fields other
\* than the saved flag (isSaved) and the colour (color), in the popup state or
\* in storage.
C19_OnlyFlagAndColourChange ==
    \A w \in Copies :
        \E c \in Constructed : [w EXCEPT !.isSaved = FALSE, !.color = c.color] = c

\* a workspace was saved, its colour was changed in the popup, and storage and
\* the popup's saved list hold it
C19_Witness ==
    /\ \E w \in Members(stored) : w.isSaved /\ w.tabs # << >>
    /\ Members(savedWorkspaces) # {}
    /\ \E w \in Members(analysis.workspaces) : w.isSaved /\ w.color = "grey"

(***************************************************************************)
(* C21: when ANALYZE_TABS fails with a MissingCredential or                *)
(* InvalidCredential error the popup enters the needs-api-key state, and   *)
(* when it fails with RateLimited, MalformedResponse or Unknown it enters  *)
(* the error state; a credential failure never shows the error state.      *)
(***************************************************************************)
CredentialKinds == {"MissingCredential", "InvalidCredential"}

\* the popup applies the response of a run whose clustering threw
ClassifiedFailureApplied ==
    /\ response # None
    /\ response' = None
    /\ ~response[1].success
    /\ RunThrew

C21_RecoveryPrompt ==
    [][ClassifiedFailureApplied =>
          analysis'.status = IF clusterOutcome[1].kind \in CredentialKinds
                             THEN "needs-api-key"
                             ELSE "error"]_vars

(***************************************************************************)
(* Saved workspaces in storage.                                            *)
(***************************************************************************)
IdsIn(list) == { list[k].id : k \in DOMAIN list }
CallsOf(type) == { c \in DOMAIN calls : calls[c].type = type }
AnsweredWithSuccess(c) == calls[c].responses # << >> /\ calls[c].responses[1].success

\* C22: a workspace whose SAVE_WORKSPACE message was answered with success stays
\* in savedWorkspaces storage until a DELETE_WORKSPACE for its id is handled, in
\* every interleaving of the handlers' storage reads and writes.  (No
\* DELETE_WORKSPACE for its id has even been sent.)
C22_SavedStaysStored ==
    \A c \in CallsOf("SAVE_WORKSPACE") :
        (/\ AnsweredWithSuccess(c)
         /\ \A d \in CallsOf("DELETE_WORKSPACE") : calls[d].payload # calls[c].payload.id)
        => calls[c].payload.id \in IdsIn(stored)

DistinctIds(list) == \A j, k \in DOMAIN list : j # k => list[j].id # list[k].id

\* saveWorkspace of call c writes in this step
SaveWrites(c) ==
    /\ calls[c].type = "SAVE_WORKSPACE"
    /\ calls[c].at = "read"
    /\ calls'[c].at # "read"

\* the written list is the list the handler read, with the entry of the saved id
\* replaced in place, or with one entry appended; the entry has isSaved = true
ReplacedOrAppended(c) ==
    LET list == calls[c].snapshot
        id == calls[c].payload.id
        at == { k \in DOMAIN list : list[k].id = id }
    IN  /\ \E k \in DOMAIN stored' : stored'[k].id = id /\ stored'[k].isSaved
        /\ IF at = {}
           THEN /\ Len(stored') = Len(list) + 1
                /\ SubSeq(stored', 1, Len(list)) = list
                /\ stored'[Len(stored')].id = id
           ELSE /\ Len(stored') = Len(list)
                /\ \A k \in DOMAIN list : k \notin at => stored'[k] = list[k]
                /\ \A k \in at : stored'[k].id = id

\* C23: starting from storage with distinct workspace ids, after any sequence and
\* interleaving of SAVE_WORKSPACE and DELETE_WORKSPACE messages savedWorkspaces
\* never contains two entries with the same id: a save writes the list its
\* handler read with the entry of that id replaced in place if the id is in it,
\* and with one entry with isSaved = true appended if it is not.
C23_UniqueIds ==
    /\ [](DistinctIds(stored) /\ \A c \in DOMAIN calls : DistinctIds(calls[c].snapshot))
    /\ [][\A c \in DOMAIN calls : SaveWrites(c) => ReplacedOrAppended(c)]_vars

\* the same workspace was saved twice (the second save replaced the entry of
\* the first), next to the workspace saved earlier
C23_Witness ==
    /\ \E c, d \in CallsOf("SAVE_WORKSPACE") :
          /\ c # d
          /\ calls[c].payload.id = calls[d].payload.id
          /\ calls[c].at = "done"
          /\ calls[d].at = "done"
          /\ calls[c].payload.id \in IdsIn(stored)
    /\ Len(stored) = 2

\* call c's handler starts createTabGroup in this step
GroupingStarts(c) == calls[c].at # "grouping" /\ calls'[c].at = "grouping"
\* createTabGroup of call c's handler settles in this step
GroupingEnds(c) == calls[c].at = "grouping" /\ calls'[c].at # "grouping"

\* C26: SAVE_WORKSPACE succeeds and the workspace is persisted even when automatic
\* tab grouping fails (no listed tab still exists, or the browser rejects the
\* grouping): grouping is attempted only in the step that wrote the workspace to
\* storage, and however the grouping ends the save is answered with success and
\* the saved workspace.
C26_SaveSurvivesGrouping ==
    [][\A c \in DOMAIN calls :
          /\ GroupingStarts(c) =>
                /\ calls[c].at = "read"
                /\ \E k \in DOMAIN stored' :
                      stored'[k] = workspaceToSave(calls[c].payload, DEFAULT_SETTINGS)
          /\ GroupingEnds(c) =>
                /\ calls'[c].responses =
                      << Succeeded(workspaceToSave(calls[c].payload, DEFAULT_SETTINGS)) >>
                /\ stored' = stored]_vars

\* a save whose grouping failed was answered with success, the popup shows the
\* workspace as saved, and storage holds it
C26_Witness ==
    \E c \in CallsOf("SAVE_WORKSPACE") :
        /\ calls[c].grouping \in {"No valid tabs to group", "rejected"}
        /\ calls[c].at = "done"
        /\ AnsweredWithSuccess(c)
        /\ calls[c].payload.id \in IdsIn(stored)
        /\ \E w \in Members(analysis.workspaces) : w.id = calls[c].payload.id /\ w.isSaved

\* the handler of call c takes a step
HandlerStep(c) == calls'[c] # calls[c] /\ calls'[c].at # "done"

\* C27: RESTORE_WORKSPACE for an id that is not in storage, or for a stored
\* workspace with no tabs, returns a failure ('Workspace not found' /
\* 'Workspace has no tabs') without creating any window or tab; and in every
\* outcome RESTORE_WORKSPACE leaves savedWorkspaces storage unchanged.
C27_RestoreFailsCleanly ==
    [][\A c \in CallsOf("RESTORE_WORKSPACE") :
          HandlerStep(c) =>
             /\ stored' = stored
             /\ calls[c].at = "received" /\ calls[c].payload \notin IdsIn(stored) =>
                   /\ calls'[c].responses = << Failed("Workspace not found") >>
                   /\ browser' = browser
             /\ /\ calls[c].at = "received"
                /\ \E w \in Members(stored) : w.id = calls[c].payload /\ w.tabs = << >>
                => /\ calls'[c].responses = << Failed("Workspace has no tabs") >>
                   /\ browser' = browser
             /\ /\ calls'[c].responses # << >>
                /\ calls'[c].responses[1] \in
                      {Failed("Workspace not found"), Failed("Workspace has no tabs")}
                => calls[c].at = "received" /\ browser' = browser]_vars

\* a stored workspace without tabs was asked to be restored, and nothing was created
C27_Witness ==
    /\ \E c \in CallsOf("RESTORE_WORKSPACE") :
          calls[c].responses = << Failed("Workspace has no tabs") >>
    /\ browser = NoBrowserEffect
    /\ \E w \in Members(stored) : w.tabs = << >>

HandledTypes ==
    {"SAVE_WORKSPACE", "GET_SAVED_WORKSPACES", "DELETE_WORKSPACE", "RESTORE_WORKSPACE"}

\* the handler of every message has answered exactly once when it is over and not
\* at all before, and while it is not over it waits for a browser call that settles
OneResponse(call) ==
    /\ Len(call.responses) = IF call.at \in {"responded", "done"} THEN 1 ELSE 0
    /\ call.type \notin HandledTypes =>
          /\ call.at \in {"responded", "done"}
          /\ call.responses = << Failed("Unknown message type") >>
    /\ call.type \in HandledTypes =>
          \/ call.at \in {"received", "responded", "done"}
          \/ call.at = "read" /\ call.type \in {"SAVE_WORKSPACE", "DELETE_WORKSPACE"}
          \/ call.at = "grouping" /\ call.type = "SAVE_WORKSPACE"
          \/ call.at \in {"window", "tabs"} /\ call.type = "RESTORE_WORKSPACE"

\* a message of an unhandled type arrives in this step
UnhandledArrives ==
    /\ Len(calls') = Len(calls) + 1
    /\ calls'[Len(calls')].type \notin HandledTypes

DeleteWrites(c) ==
    /\ calls[c].type = "DELETE_WORKSPACE"
    /\ calls[c].at = "read"
    /\ calls'[c].at # "read"

\* C29: DELETE_WORKSPACE removes exactly the stored workspaces whose id equals the
\* payload and leaves every other stored workspace and their relative order
\* unchanged; deleting an id that is not stored succeeds and leaves storage
\* unchanged, so repeating a delete has no further effect.
C29_DeleteExact ==
    [][\A c \in DOMAIN calls :
          DeleteWrites(c) =>
             /\ stored' = Filtered(stored, calls[c].payload)
             /\ calls'[c].responses # << >>
             /\ calls'[c].responses[1].success]_vars

\* C30: whenever the popup's Organize view shows a workspace as saved
\* (isSaved = true, Save button disabled), savedWorkspaces storage contains a
\* workspace with that id, after any sequence of save, delete, dismiss and reset
\* actions in the popup.
C30_ShownSavedIsStored ==
    analysis.status = "complete" =>
        \A w \in Members(analysis.workspaces) : w.isSaved => w.id \in IdsIn(stored)

(***************************************************************************)
(* ANALYZE_TABS requests of a popup session.                               *)
(***************************************************************************)
\* the requests whose response the popup has not applied yet
InFlight == { j \in DOMAIN jobs : jobs[j].pc # "applied" }

\* C24: the popup never has two ANALYZE_TABS requests in flight at the same time:
\* from the moment a request is sent until its response has been applied to the
\* analysis state, no user action, keyboard shortcut or API-key check can lead to
\* a second request, so an applied response always belongs to the most recent
\* request.
C24_SingleRequestInFlight ==
    /\ [](Cardinality(InFlight) <= 1)
    /\ [][applied' # applied => applied'[Len(applied')] = Len(jobs)]_vars

\* the workspaces of a successful response
WorkspacesOf(job) ==
    IF job.response # None /\ job.response[1].success
    THEN job.response[1].data[1].workspaces
    ELSE << >>

\* C25: in every successful ANALYZE_TABS response the i-th workspace (counting from
\* 0) has the colour at position i mod 8 of the rotation blue, green, yellow,
\* pink, purple, cyan, orange, red, also when several ANALYZE_TABS messages are
\* handled concurrently and share the global colour index.
C25_ColourRotation ==
    \A j \in DOMAIN jobs :
        \A k \in DOMAIN WorkspacesOf(jobs[j]) :
            WorkspacesOf(jobs[j])[k].color =
                << "blue", "green", "yellow", "pink", "purple", "cyan", "orange", "red" >>
                    [((k - 1) % 8) + 1]

\* two analyses were handled concurrently and both returned workspaces, one of
\* them more than there are colours
C25_Witness ==
    \E j, k \in DOMAIN jobs :
        /\ j # k
        /\ Len(WorkspacesOf(jobs[j])) > 8
        /\ Len(WorkspacesOf(jobs[k])) > 0
        /\ jobs[j].sharedWith # {} \/ jobs[k].sharedWith # {}
        /\ colorIndex > 0

====
